---- MODULE Spec2Model ----
(***************************************************************************)
(* Model of the token library used by the chat server (djwt v2.4: mod.ts,  *)
(* algorithm.ts, signature.ts) together with the base64 codec it rests on. *)
(*                                                                         *)
(* Strings are sequences of character codes (ASCII), byte arrays are       *)
(* sequences of 0..255.  A token is one flat string; it is split on '.'    *)
(* the way the library splits it.                                          *)
(***************************************************************************)
EXTENDS Integers, Sequences, FiniteSets, TLC

\* ------------------------------------------------------------------------
\* Bounds of the model
\* ------------------------------------------------------------------------

\* length in bytes of the signature the signing primitive returns
\* (2 has the residue of a 32-byte HMAC-SHA-256 signature modulo 3)
SigLen == 2
\* the number of calls of verify that may be in flight together
MaxCalls == 2

\* the clock runs from 0 for MaxTicks steps of half a second
MaxTicks == 4

\* the longest byte sequence handed to encode
MaxBytes == 4

\* the number of listeners opened, of calls of serve, listenAndServe and
\* listenAndServeTls that start to accept, and of connections accepted
MaxListeners == 2
MaxServes == 2
MaxConns == 1

\* the number of requests that arrive on the connections
MaxRequests == 2
MaxSignups == 2

\* ------------------------------------------------------------------------
\* Small helpers on sequences
\* ------------------------------------------------------------------------

\* Let(x, F) is F(x) with x evaluated once: x is bound through a singleton
\* set, so an argument that is costly to compute is not computed again at
\* each of its uses
Let(x, F(_)) == CHOOSE r \in {F(v) : v \in {x}} : TRUE

\* the concatenation of a sequence of sequences
Concat(seqs) ==
    Let(seqs, LAMBDA ss :
        LET cat[k \in 0..Len(ss)] == IF k = 0 THEN <<>> ELSE cat[k - 1] \o ss[k]
        IN cat[Len(ss)])

\* s without the elements that are in set drop
SelectNot(seq, drop) ==
    Let(seq, LAMBDA s :
        IF \A i \in 1..Len(s) : s[i] \notin drop THEN s
        ELSE LET sel[k \in 0..Len(s)] ==
                     IF k = 0 THEN <<>>
                     ELSE IF s[k] \in drop THEN sel[k - 1]
                     ELSE Append(sel[k - 1], s[k])
             IN sel[Len(s)])

\* n with bit k flipped
FlipBit(n, k) == IF (n \div (2 ^ k)) % 2 = 1 THEN n - 2 ^ k ELSE n + 2 ^ k

\* ------------------------------------------------------------------------
\* std/encoding/base64.ts
\* ------------------------------------------------------------------------

\* base64abc: "A".."Z", "a".."z", "0".."9", "+", "/"
base64abc ==
    [i \in 1..64 |->
        IF i <= 26 THEN 64 + i
        ELSE IF i <= 52 THEN 70 + i
        ELSE IF i <= 62 THEN i - 5
        ELSE IF i = 63 THEN 43 ELSE 47]

\* the 6-bit value of a character of the base64 alphabet
Base64Index(c) ==
    IF c \in 65..90 THEN c - 65
    ELSE IF c \in 97..122 THEN c - 71
    ELSE IF c \in 48..57 THEN c + 4
    ELSE IF c = 43 THEN 62 ELSE 63

Base64Chars == {base64abc[i] : i \in 1..64}

\* an encode that writes the whole groups of three octets only
base64_encode_WholeGroups(data) ==
    Let(data, LAMBDA uint8 :
        LET o(k) == uint8[k]
            char(g, c) ==
                LET k == 3 * g + 1 IN
                IF c = 1 THEN base64abc[(o(k) \div 4) + 1]
                ELSE IF c = 2
                THEN base64abc[((o(k) % 4) * 16 + o(k + 1) \div 16) + 1]
                ELSE IF c = 3
                THEN base64abc[((o(k + 1) % 16) * 4 + o(k + 2) \div 64) + 1]
                ELSE base64abc[(o(k + 2) % 64) + 1]
        IN [j \in 1..(4 * (Len(uint8) \div 3)) |->
               char((j - 1) \div 4, ((j - 1) % 4) + 1)])

\* encode(data): three octets give four characters; one or two octets left
\* over give two or three characters and "==" or "="
base64_encode(data) ==
    Let(data, LAMBDA uint8 :
        LET l == Len(uint8)
            \* the octet at position k, 0 past the end
            o(k) == IF k <= l THEN uint8[k] ELSE 0
            \* character c (1..4) of the group that starts at octet 3g + 1
            char(g, c) ==
                LET k == 3 * g + 1 IN
                IF c = 1 THEN base64abc[(o(k) \div 4) + 1]
                ELSE IF c = 2
                THEN base64abc[((o(k) % 4) * 16 + o(k + 1) \div 16) + 1]
                ELSE IF c = 3 THEN
                    IF k + 1 > l THEN 61
                    ELSE base64abc[((o(k + 1) % 16) * 4 + o(k + 2) \div 64) + 1]
                ELSE IF k + 2 > l THEN 61
                     ELSE base64abc[(o(k + 2) % 64) + 1]
        IN [j \in 1..(4 * ((l + 2) \div 3)) |->
               char((j - 1) \div 4, ((j - 1) % 4) + 1)])

\* the octets carried by a padding-free run of base64 characters; the bits
\* left over after the last whole octet are discarded
Sextets(chars) ==
    Let(chars, LAMBDA cs :
        LET v(i) == Base64Index(cs[i])
            \* octet b (1..3) of the group that starts at character 4g + 1
            octet(g, b) ==
                LET k == 4 * g + 1 IN
                IF b = 1 THEN v(k) * 4 + v(k + 1) \div 16
                ELSE IF b = 2 THEN (v(k + 1) % 16) * 16 + v(k + 2) \div 4
                ELSE (v(k + 2) % 4) * 64 + v(k + 3)
        IN [j \in 1..((Len(cs) * 6) \div 8) |->
               octet((j - 1) \div 3, ((j - 1) % 3) + 1)])

\* atob(b64), the platform's forgiving base64 decoder: ASCII whitespace is
\* removed, one or two trailing "=" are removed when the length is a
\* multiple of four, a length of 1 modulo 4 or any character outside the
\* alphabet is an error
atob(b64) ==
    LET strip(d1) ==
            LET n1 == Len(d1) IN
            IF n1 > 0 /\ n1 % 4 = 0
            THEN IF d1[n1] = 61 /\ d1[n1 - 1] = 61 THEN SubSeq(d1, 1, n1 - 2)
                 ELSE IF d1[n1] = 61 THEN SubSeq(d1, 1, n1 - 1)
                 ELSE d1
            ELSE d1
    IN
    Let(SelectNot(b64, {9, 10, 12, 13, 32}), LAMBDA d1 :
        Let(strip(d1), LAMBDA d2 :
            IF Len(d2) % 4 = 1 \/ \E i \in 1..Len(d2) : d2[i] \notin Base64Chars
            THEN [ok |-> FALSE, bytes |-> <<>>]
            ELSE [ok |-> TRUE, bytes |-> Sextets(d2)]))

\* decode(b64): the char codes of atob(b64)
base64_decode(b64) == atob(b64)

\* ------------------------------------------------------------------------
\* std/encoding/base64url.ts
\* ------------------------------------------------------------------------

\* the characters of a base64url string: letters, digits, "-" and "_"
Base64urlChars == (Base64Chars \ {43, 47}) \cup {45, 95}

\* convertBase64ToBase64url: "=" removed, "+" -> "-", "/" -> "_"
convertBase64ToBase64url(b64) ==
    Let(SelectNot(b64, {61}), LAMBDA s :
        [i \in 1..Len(s) |-> IF s[i] = 43 THEN 45
                             ELSE IF s[i] = 47 THEN 95 ELSE s[i]])

\* addPaddingToBase64url with "-" -> "+" and "_" -> "/"
convertBase64urlToBase64(b64url) ==
    Let(b64url, LAMBDA u :
        LET s == [i \in 1..Len(u) |->
                     IF u[i] = 45 THEN 43 ELSE IF u[i] = 95 THEN 47 ELSE u[i]]
        IN IF Len(u) % 4 = 2 THEN s \o <<61, 61>>
           ELSE IF Len(u) % 4 = 3 THEN s \o <<61>>
           ELSE s)

base64url_encode(uint8) == convertBase64ToBase64url(base64_encode(uint8))

\* decode: padded and unpadded input is accepted, a character outside the
\* base64url alphabet is an error
base64url_decode(b64url) ==
    Let(b64url, LAMBDA s :
        LET n == Len(s)
            pad == IF n >= 2 /\ s[n] = 61 /\ s[n - 1] = 61 THEN 2
                   ELSE IF n >= 1 /\ s[n] = 61 THEN 1 ELSE 0
        IN
        IF (\E i \in 1..(n - pad) : s[i] \notin Base64urlChars) \/ n % 4 = 1
        THEN [ok |-> FALSE, bytes |-> <<>>]
        ELSE base64_decode(convertBase64urlToBase64(s)))

\* ------------------------------------------------------------------------
\* JSON values, JSON.stringify and JSON.parse
\*
\* A JSON text is modelled with one character per atom: a member of an
\* object is a key letter followed by its value, a value is a digit (a
\* number), a lower-case letter (a string, "n" null, "t" true, "f" false),
\* "[]" or "{}".  Whitespace between atoms is insignificant.
\* ------------------------------------------------------------------------

Undefined == [t |-> "undefined", n |-> 0, s |-> ""]
JNum(n)   == [t |-> "number", n |-> n, s |-> ""]
JStr(s)   == [t |-> "string", n |-> 0, s |-> s]
JNull     == [t |-> "object", n |-> 0, s |-> "null"]
JTrue     == [t |-> "boolean", n |-> 1, s |-> ""]
JArray    == [t |-> "object", n |-> 0, s |-> "array"]
JObject   == [t |-> "object", n |-> 0, s |-> "object"]

\* typeof v
typeof(v) == v.t

\* the member names of the headers and payloads of the model, in the order
\* in which the objects are built
FieldOrder == <<"alg", "typ", "iss", "exp", "nbf">>
FieldNames == {FieldOrder[i] : i \in 1..Len(FieldOrder)}

\* the letter that stands for a member name in a JSON text
KeyCode == [f \in FieldNames |->
              CASE f = "alg" -> 65 [] f = "typ" -> 84 [] f = "iss" -> 73
                [] f = "exp" -> 69 [] f = "nbf" -> 78]

\* the strings of the model and the letter that stands for each in a text
Strings == {"HS256", "HS384", "HS512", "PS256", "PS384", "PS512", "RS256",
            "RS384", "RS512", "ES256", "ES384", "ES512", "none", "JWT", "ada",
            "soon"}
StrCode == [s \in Strings |->
              CASE s = "HS256" -> 97 [] s = "HS384" -> 98 [] s = "HS512" -> 99
                [] s = "PS256" -> 100 [] s = "PS384" -> 101 [] s = "PS512" -> 103
                [] s = "RS256" -> 104 [] s = "RS384" -> 105 [] s = "RS512" -> 107
                [] s = "ES256" -> 108 [] s = "ES384" -> 109 [] s = "ES512" -> 111
                [] s = "none" -> 112 [] s = "JWT" -> 106 [] s = "ada" -> 117
                [] s = "soon" -> 120]

\* an object without members
EmptyObject == [f \in FieldNames |-> Undefined]

\* the text of one value
ValueText(v) ==
    IF v.t = "number" THEN <<48 + v.n>>
    ELSE IF v.t = "string" THEN <<StrCode[v.s]>>
    ELSE IF v.t = "boolean" THEN IF v.n = 1 THEN <<116>> ELSE <<102>>
    ELSE IF v.s = "null" THEN <<110>>
    ELSE IF v.s = "array" THEN <<91, 93>>
    ELSE <<123, 125>>

\* JSON.stringify(obj) of an object: members whose value is undefined are
\* left out
JSON_stringify(obj) ==
    <<123>>
    \o Concat([i \in 1..Len(FieldOrder) |->
                  IF obj[FieldOrder[i]] = Undefined THEN <<>>
                  ELSE <<KeyCode[FieldOrder[i]]>> \o ValueText(obj[FieldOrder[i]])])
    \o <<125>>

\* the member name and the string a letter of a JSON text stands for
KeyOfCode == [c \in {KeyCode[f] : f \in FieldNames} |->
                 CHOOSE f \in FieldNames : KeyCode[f] = c]
StrOfCode == [c \in {StrCode[x] : x \in Strings} |->
                 CHOOSE x \in Strings : StrCode[x] = c]

\* the value that starts at position i of text s: [ok, val, next]
ParseValue(s, i) ==
    IF i > Len(s) THEN [ok |-> FALSE, val |-> Undefined, next |-> i]
    ELSE Let(s[i], LAMBDA c :
        IF c \in 48..57 THEN [ok |-> TRUE, val |-> JNum(c - 48), next |-> i + 1]
        ELSE IF c = 110 THEN [ok |-> TRUE, val |-> JNull, next |-> i + 1]
        ELSE IF c = 116 THEN [ok |-> TRUE, val |-> JTrue, next |-> i + 1]
        ELSE IF c = 102
             THEN [ok |-> TRUE, val |-> [JTrue EXCEPT !.n = 0], next |-> i + 1]
        ELSE IF c \in DOMAIN StrOfCode
             THEN [ok |-> TRUE, val |-> JStr(StrOfCode[c]), next |-> i + 1]
        ELSE IF c = 91 /\ i + 1 <= Len(s) /\ s[i + 1] = 93
             THEN [ok |-> TRUE, val |-> JArray, next |-> i + 2]
        ELSE IF c = 123 /\ i + 1 <= Len(s) /\ s[i + 1] = 125
             THEN [ok |-> TRUE, val |-> JObject, next |-> i + 2]
        ELSE [ok |-> FALSE, val |-> Undefined, next |-> i])

RECURSIVE ParseMembers(_, _, _)
\* the members of an object from position i on; a repeated name keeps its
\* last value
ParseMembers(s, i, acc) ==
    IF i > Len(s) THEN [ok |-> FALSE, obj |-> EmptyObject]
    ELSE IF s[i] = 125
         THEN [ok |-> i = Len(s), obj |-> IF i = Len(s) THEN acc ELSE EmptyObject]
    ELSE IF s[i] \in DOMAIN KeyOfCode
         THEN Let(ParseValue(s, i + 1), LAMBDA v :
                  IF v.ok
                  THEN Let([acc EXCEPT ![KeyOfCode[s[i]]] = v.val], LAMBDA acc1 :
                           ParseMembers(s, v.next, acc1))
                  ELSE [ok |-> FALSE, obj |-> EmptyObject])
    ELSE [ok |-> FALSE, obj |-> EmptyObject]

\* JSON.parse(text): [ok, val, obj]; val is the parsed value (JObject for an
\* object) and obj are its members (none unless it is an object)
JSON_parse(text) ==
    LET fail == [ok |-> FALSE, val |-> Undefined, obj |-> EmptyObject] IN
    Let(SelectNot(text, {9, 10, 13, 32}), LAMBDA s :
        IF s = <<>> THEN fail
        ELSE IF s[1] = 123 THEN
            Let(ParseMembers(s, 2, EmptyObject), LAMBDA m :
                IF m.ok THEN [ok |-> TRUE, val |-> JObject, obj |-> m.obj]
                ELSE fail)
        ELSE Let(ParseValue(s, 1), LAMBDA v :
                 IF v.ok /\ v.next = Len(s) + 1
                 THEN [ok |-> TRUE, val |-> v.val, obj |-> EmptyObject]
                 ELSE fail))

\* encoder.encode(str): the UTF-8 bytes of a string, one byte per ASCII
\* character
encoder_encode(str) == str

\* decoder.decode(bytes): a byte above 127 that is not part of a UTF-8
\* sequence becomes U+FFFD
decoder_decode(uint8Array) ==
    [i \in 1..Len(uint8Array) |->
        IF uint8Array[i] < 128 THEN uint8Array[i] ELSE 65533]

\* ------------------------------------------------------------------------
\* Keys and the signing primitive
\* ------------------------------------------------------------------------

\* A key is null, a CryptoKey (with its algorithm: name, hash.name or
\* namedCurve, "" when the member is absent) or a raw byte array, which has
\* no algorithm member.  secret stands for the key material.
NullKey == [kind |-> "null", name |-> "", hash |-> "", namedCurve |-> "", secret |-> 0]
RawKey  == [kind |-> "raw", name |-> "", hash |-> "", namedCurve |-> "", secret |-> 1]
HmacKey(hash, secret) ==
    [kind |-> "CryptoKey", name |-> "HMAC", hash |-> hash, namedCurve |-> "",
     secret |-> secret]
EcKey(curve, secret) ==
    [kind |-> "CryptoKey", name |-> "ECDSA", hash |-> "", namedCurve |-> curve,
     secret |-> secret]
\* an RSA key (name "RSA-PSS" or "RSASSA-PKCS1-v1_5") and an AES key, whose
\* algorithm has neither a hash nor a curve
RsaKey(name, hash, secret) ==
    [kind |-> "CryptoKey", name |-> name, hash |-> hash, namedCurve |-> "",
     secret |-> secret]
AesKey(secret) ==
    [kind |-> "CryptoKey", name |-> "AES-GCM", hash |-> "", namedCurve |-> "",
     secret |-> secret]

\* a keyed digest of data, as a number below 256^SigLen
Mac(h, bytes) ==
    Let(bytes, LAMBDA data :
        LET digest[i \in 0..Len(data)] ==
                IF i = 0 THEN h
                ELSE (digest[i - 1] * 31 + data[i]) % (256 ^ SigLen)
        IN digest[Len(data)])

\* the hash functions, numbered
HashCode(hash) ==
    CASE hash = "SHA-256" -> 1 [] hash = "SHA-384" -> 2 [] hash = "SHA-512" -> 3
      [] OTHER -> 0

\* crypto.subtle.sign(algorithm, key, data): SigLen bytes, big-endian; the
\* digest depends on the key material and on the hash, which is the one the
\* key is bound to or else the one the algorithm names
crypto_subtle_sign(algorithm, key, data) ==
    Let(Mac(4 * key.secret
              + HashCode(IF key.hash # "" THEN key.hash ELSE algorithm.hash),
            data),
        LAMBDA m : [i \in 1..SigLen |-> (m \div (256 ^ (SigLen - i))) % 256])

\* a verification that compares the first byte of the signature only
crypto_subtle_verify_FirstByte(algorithm, key, signature, data) ==
    /\ Len(signature) > 0
    /\ signature[1] = crypto_subtle_sign(algorithm, key, data)[1]

\* crypto.subtle.verify(algorithm, key, signature, data)
crypto_subtle_verify(algorithm, key, signature, data) ==
    signature = crypto_subtle_sign(algorithm, key, data)

\* ------------------------------------------------------------------------
\* djwt/algorithm.ts
\* ------------------------------------------------------------------------

isHashedKeyAlgorithm(algorithm) == algorithm.hash # ""

isEcKeyAlgorithm(algorithm) == algorithm.namedCurve # ""

AlgSpec(name, hash, namedCurve, saltLength) ==
    [ok |-> TRUE, name |-> name, hash |-> hash, namedCurve |-> namedCurve,
     saltLength |-> saltLength]

\* a registry that knows ES512 as well
getAlgorithm_WithES512(alg) ==
    LET a == IF typeof(alg) = "string" THEN alg.s ELSE "" IN
    CASE a = "HS256" -> AlgSpec("HMAC", "SHA-256", "", 0)
      [] a = "HS384" -> AlgSpec("HMAC", "SHA-384", "", 0)
      [] a = "HS512" -> AlgSpec("HMAC", "SHA-512", "", 0)
      [] a = "PS256" -> AlgSpec("RSA-PSS", "SHA-256", "", 256 \div 8)
      [] a = "PS384" -> AlgSpec("RSA-PSS", "SHA-384", "", 384 \div 8)
      [] a = "PS512" -> AlgSpec("RSA-PSS", "SHA-512", "", 512 \div 8)
      [] a = "RS256" -> AlgSpec("RSASSA-PKCS1-v1_5", "SHA-256", "", 0)
      [] a = "RS384" -> AlgSpec("RSASSA-PKCS1-v1_5", "SHA-384", "", 0)
      [] a = "RS512" -> AlgSpec("RSASSA-PKCS1-v1_5", "SHA-512", "", 0)
      [] a = "ES256" -> AlgSpec("ECDSA", "SHA-256", "P-256", 0)
      [] a = "ES384" -> AlgSpec("ECDSA", "SHA-384", "P-384", 0)
      [] a = "ES512" -> AlgSpec("ECDSA", "SHA-512", "P-521", 0)
      [] OTHER -> [ok |-> FALSE, name |-> "", hash |-> "", namedCurve |-> "",
                   saltLength |-> 0]

\* getAlgorithm(alg): the parameters of the algorithm, or the error "is not
\* supported"
getAlgorithm(alg) ==
    LET a == IF typeof(alg) = "string" THEN alg.s ELSE "" IN
    CASE a = "HS256" -> AlgSpec("HMAC", "SHA-256", "", 0)
      [] a = "HS384" -> AlgSpec("HMAC", "SHA-384", "", 0)
      [] a = "HS512" -> AlgSpec("HMAC", "SHA-512", "", 0)
      [] a = "PS256" -> AlgSpec("RSA-PSS", "SHA-256", "", 256 \div 8)
      [] a = "PS384" -> AlgSpec("RSA-PSS", "SHA-384", "", 384 \div 8)
      [] a = "PS512" -> AlgSpec("RSA-PSS", "SHA-512", "", 512 \div 8)
      [] a = "RS256" -> AlgSpec("RSASSA-PKCS1-v1_5", "SHA-256", "", 0)
      [] a = "RS384" -> AlgSpec("RSASSA-PKCS1-v1_5", "SHA-384", "", 0)
      [] a = "RS512" -> AlgSpec("RSASSA-PKCS1-v1_5", "SHA-512", "", 0)
      [] a = "ES256" -> AlgSpec("ECDSA", "SHA-256", "P-256", 0)
      [] a = "ES384" -> AlgSpec("ECDSA", "SHA-384", "P-384", 0)
      [] OTHER -> [ok |-> FALSE, name |-> "", hash |-> "", namedCurve |-> "",
                   saltLength |-> 0]

\* a check that lets "none" pass with any key, and any alg without a key
verifyAlgorithm_KeyOptional(alg, key) ==
    LET throw(e) == [ok |-> FALSE, val |-> FALSE, err |-> e]
        return(b) == [ok |-> TRUE, val |-> b, err |-> ""]
    IN
    IF alg = JStr("none") \/ key.kind = "null" THEN return(TRUE)
    ELSE LET algAlgorithm == getAlgorithm(alg) IN
         IF ~algAlgorithm.ok THEN throw("UnsupportedAlgorithm")
         ELSE IF key.kind = "raw" THEN throw("TypeError")
         ELSE IF key.name = algAlgorithm.name THEN
             IF isHashedKeyAlgorithm(key)
             THEN return(key.hash = algAlgorithm.hash)
             ELSE IF isEcKeyAlgorithm(key)
             THEN return(key.namedCurve = algAlgorithm.namedCurve)
             ELSE return(FALSE)
         ELSE return(FALSE)

\* a check that does not compare the curve of an elliptic-curve key
verifyAlgorithm_CurveIgnored(alg, key) ==
    LET throw(e) == [ok |-> FALSE, val |-> FALSE, err |-> e]
        return(b) == [ok |-> TRUE, val |-> b, err |-> ""]
    IN
    IF alg = JStr("none") THEN
        IF key.kind # "null" THEN throw("AlgAllowsNoKey") ELSE return(TRUE)
    ELSE
        IF key.kind = "null" THEN throw("AlgDemandsKey")
        ELSE LET algAlgorithm == getAlgorithm(alg) IN
             IF ~algAlgorithm.ok THEN throw("UnsupportedAlgorithm")
             ELSE IF key.kind = "raw" THEN throw("TypeError")
             ELSE IF key.name = algAlgorithm.name THEN
                 IF isHashedKeyAlgorithm(key)
                 THEN return(key.hash = algAlgorithm.hash)
                 ELSE return(isEcKeyAlgorithm(key))
             ELSE return(FALSE)

\* a check that compares the names of the algorithms only, not the hash or
\* the curve
verifyAlgorithm_NameOnly(alg, key) ==
    LET throw(e) == [ok |-> FALSE, val |-> FALSE, err |-> e]
        return(b) == [ok |-> TRUE, val |-> b, err |-> ""]
    IN
    IF alg = JStr("none") THEN
        IF key.kind # "null" THEN throw("AlgAllowsNoKey") ELSE return(TRUE)
    ELSE
        IF key.kind = "null" THEN throw("AlgDemandsKey")
        ELSE LET algAlgorithm == getAlgorithm(alg) IN
             IF ~algAlgorithm.ok THEN throw("UnsupportedAlgorithm")
             ELSE IF key.kind = "raw" THEN throw("TypeError")
             ELSE return(key.name = algAlgorithm.name)

\* verify(alg, key) of algorithm.ts: [ok, val, err]; ok is FALSE when it
\* throws
verifyAlgorithm(alg, key) ==
    LET throw(e) == [ok |-> FALSE, val |-> FALSE, err |-> e]
        return(b) == [ok |-> TRUE, val |-> b, err |-> ""]
    IN
    IF alg = JStr("none") THEN
        IF key.kind # "null" THEN throw("AlgAllowsNoKey") ELSE return(TRUE)
    ELSE
        IF key.kind = "null" THEN throw("AlgDemandsKey")
        ELSE LET algAlgorithm == getAlgorithm(alg) IN
             IF ~algAlgorithm.ok THEN throw("UnsupportedAlgorithm")
             ELSE IF key.kind = "raw" THEN throw("TypeError")
             ELSE IF key.name = algAlgorithm.name THEN
                 IF isHashedKeyAlgorithm(key)
                 THEN return(key.hash = algAlgorithm.hash)
                 ELSE IF isEcKeyAlgorithm(key)
                 THEN return(key.namedCurve = algAlgorithm.namedCurve)
                 ELSE return(FALSE)
             ELSE return(FALSE)

\* ------------------------------------------------------------------------
\* djwt/signature.ts
\* ------------------------------------------------------------------------

\* verify(signature, key, alg, signingInput) of signature.ts: [ok, val, err,
\* calls]; calls lists the primitives it invoked
verifySignature(signature, key, alg, signingInput) ==
    IF key.kind = "null"
    THEN [ok |-> TRUE, val |-> Len(signature) = 0, err |-> "", calls |-> <<>>]
    ELSE IF ~getAlgorithm(alg).ok
    THEN [ok |-> FALSE, val |-> FALSE, err |-> "UnsupportedAlgorithm", calls |-> <<>>]
    ELSE IF key.kind = "raw"
    THEN [ok |-> FALSE, val |-> FALSE, err |-> "TypeError",
          calls |-> <<"crypto.subtle.verify">>]
    ELSE [ok |-> TRUE,
          val |-> crypto_subtle_verify(getAlgorithm(alg), key, signature,
                                       encoder_encode(signingInput)),
          err |-> "", calls |-> <<"crypto.subtle.verify">>]

\* create(alg, key, signingInput) of signature.ts: [ok, sig, err, calls]
createSignature(alg, key, signingInput) ==
    IF key.kind = "null"
    THEN [ok |-> TRUE, sig |-> <<>>, err |-> "", calls |-> <<>>]
    ELSE IF ~getAlgorithm(alg).ok
    THEN [ok |-> FALSE, sig |-> <<>>, err |-> "UnsupportedAlgorithm", calls |-> <<>>]
    ELSE IF key.kind = "raw"
    THEN [ok |-> FALSE, sig |-> <<>>, err |-> "TypeError",
          calls |-> <<"crypto.subtle.sign">>]
    ELSE [ok |-> TRUE,
          sig |-> base64url_encode(
                      crypto_subtle_sign(getAlgorithm(alg), key,
                                         encoder_encode(signingInput))),
          err |-> "", calls |-> <<"crypto.subtle.sign">>]

\* ------------------------------------------------------------------------
\* djwt/mod.ts
\* ------------------------------------------------------------------------

\* str.split(sep): the pieces of str between the occurrences of sep
split(str, sep) ==
    Let(str, LAMBDA s :
        Let({i \in 1..Len(s) : s[i] = sep}, LAMBDA seps :
            LET \* the position of the k-th sep; 0 and Len(s) + 1 bound s
                at(k) == IF k = 0 THEN 0
                         ELSE IF k > Cardinality(seps) THEN Len(s) + 1
                         ELSE CHOOSE i \in seps :
                                  Cardinality({j \in seps : j < i}) = k - 1
            IN [k \in 1..(Cardinality(seps) + 1) |->
                   SubSeq(s, at(k - 1) + 1, at(k) - 1)]))

\* str.slice(0, str.lastIndexOf(sep)): what precedes the last sep; without
\* any sep the index is -1 and the slice drops the last character
sliceToLast(str, sep) ==
    Let(str, LAMBDA s :
        IF \A i \in 1..Len(s) : s[i] # sep
        THEN SubSeq(s, 1, Len(s) - 1)
        ELSE LET k == CHOOSE i \in 1..Len(s) :
                          s[i] = sep /\ \A j \in (i + 1)..Len(s) : s[j] # sep
             IN SubSeq(s, 1, k - 1))

\* an expiry that includes the instant exp + leeway itself
isExpired_Inclusive(exp, leeway, nowMs) == (exp + leeway) * 1000 <= nowMs

\* isExpired(exp, leeway): exp + leeway < Date.now() / 1000
isExpired(exp, leeway, nowMs) == (exp + leeway) * 1000 < nowMs

\* a not-before that still rejects at the instant nbf - leeway itself
isTooEarly_Inclusive(nbf, leeway, nowMs) == (nbf - leeway) * 1000 >= nowMs

\* isTooEarly(nbf, leeway): nbf - leeway > Date.now() / 1000
isTooEarly(nbf, leeway, nowMs) == (nbf - leeway) * 1000 > nowMs

\* a test that leaves out Array.isArray
isObject_ArrayAllowed(obj) == obj # JNull /\ typeof(obj) = "object"

isObject(obj) == obj # JNull /\ typeof(obj) = "object" /\ ~(obj = JArray)

\* a test that takes any array of three or more elements
is3Tuple_AtLeast(arr) == Len(arr) >= 3

is3Tuple(arr) == Len(arr) = 3

\* a check that takes null for an absent claim
hasInvalidTimingClaims_NullAllowed(claimValues) ==
    \E i \in 1..Len(claimValues) :
        IF claimValues[i] # Undefined /\ claimValues[i] # JNull
        THEN typeof(claimValues[i]) # "number"
        ELSE FALSE

hasInvalidTimingClaims(claimValues) ==
    \E i \in 1..Len(claimValues) :
        IF claimValues[i] # Undefined THEN typeof(claimValues[i]) # "number"
        ELSE FALSE

\* decode(jwt): [ok, header, payload, signature]; header and payload are
\* the results of JSON.parse, signature are the bytes of the third segment
decode(jwt) ==
    LET parse(bytes) ==
            [i \in 1..Len(bytes) |->
                IF i \in {1, 2} /\ bytes[i].ok
                THEN JSON_parse(decoder_decode(bytes[i].bytes))
                ELSE [ok |-> bytes[i].ok, val |-> Undefined, obj |-> EmptyObject]]
        fail(arr) == [ok |-> FALSE, header |-> arr[1], payload |-> arr[1],
                      signature |-> <<>>]
    IN
    Let(split(jwt, 46), LAMBDA segs :
        Let([i \in 1..Len(segs) |-> base64url_decode(segs[i])], LAMBDA bytes :
            Let(parse(bytes), LAMBDA arr :
                IF \E i \in 1..Len(arr) : ~arr[i].ok THEN fail(arr)
                ELSE IF is3Tuple(arr)
                THEN [ok |-> TRUE, header |-> arr[1], payload |-> arr[2],
                      signature |-> bytes[3].bytes]
                ELSE fail(arr))))

\* a validate that does not look at exp once it is a number
validate_ExpUnchecked(d, nowMs) ==
    LET header == d.header
        payload == d.payload
        throw(e) == [ok |-> FALSE, err |-> e]
    IN
    IF typeof(header.obj["alg"]) # "string" THEN throw("AlgNotString")
    ELSE IF isObject(payload.val) THEN
        IF hasInvalidTimingClaims(<<payload.obj["exp"], payload.obj["nbf"]>>)
        THEN throw("InvalidClaims")
        ELSE IF typeof(payload.obj["nbf"]) = "number"
                /\ isTooEarly(payload.obj["nbf"].n, 1, nowMs)
        THEN throw("TokenNotYetValid")
        ELSE [ok |-> TRUE, err |-> ""]
    ELSE throw("ClaimsNotObject")

\* validate([header, payload, signature]): [ok, err]
validate(d, nowMs) ==
    LET header == d.header
        payload == d.payload
        throw(e) == [ok |-> FALSE, err |-> e]
    IN
    IF typeof(header.obj["alg"]) # "string" THEN throw("AlgNotString")
    ELSE IF isObject(payload.val) THEN
        IF hasInvalidTimingClaims(<<payload.obj["exp"], payload.obj["nbf"]>>)
        THEN throw("InvalidClaims")
        ELSE IF typeof(payload.obj["exp"]) = "number"
                /\ isExpired(payload.obj["exp"].n, 1, nowMs)
        THEN throw("TokenExpired")
        ELSE IF typeof(payload.obj["nbf"]) = "number"
                /\ isTooEarly(payload.obj["nbf"].n, 1, nowMs)
        THEN throw("TokenNotYetValid")
        ELSE [ok |-> TRUE, err |-> ""]
    ELSE throw("ClaimsNotObject")

\* a verify that checks the signature first and validates the claims last
verify_SignatureFirst(jwt, key, nowMs) ==
    LET throw(e, c) == [ok |-> FALSE, payload |-> EmptyObject, err |-> e, calls |-> c]
        before == <<"decode", "verifyAlgorithm">>
    IN
    Let(decode(jwt), LAMBDA d :
        IF ~d.ok THEN throw("MalformedToken", <<"decode">>)
        ELSE Let(verifyAlgorithm(d.header.obj["alg"], key), LAMBDA a :
            IF ~a.ok THEN throw(a.err, before)
            ELSE IF a.val THEN
                Let(verifySignature(d.signature, key, d.header.obj["alg"],
                                    sliceToLast(jwt, 46)), LAMBDA sg :
                    IF ~sg.ok THEN throw(sg.err, before \o sg.calls)
                    ELSE IF ~sg.val
                    THEN throw("SignatureMismatch", before \o sg.calls)
                    ELSE Let(validate(d, nowMs), LAMBDA v :
                        IF ~v.ok
                        THEN throw(v.err, before \o sg.calls \o <<"validate">>)
                        ELSE [ok |-> TRUE, payload |-> d.payload.obj, err |-> "",
                              calls |-> before \o sg.calls \o <<"validate">>]))
            ELSE throw("AlgorithmMismatch", before)))

\* a verify that checks the signature over the header and the payload
\* serialized anew, not over the text that was received
verify_Reserialized(jwt, key, nowMs) ==
    LET throw(e, c) == [ok |-> FALSE, payload |-> EmptyObject, err |-> e, calls |-> c]
        before == <<"decode", "validate", "verifyAlgorithm">>
    IN
    Let(decode(jwt), LAMBDA d :
        IF ~d.ok THEN throw("MalformedToken", <<"decode">>)
        ELSE Let(validate(d, nowMs), LAMBDA v :
            IF ~v.ok THEN throw(v.err, <<"decode", "validate">>)
            ELSE Let(verifyAlgorithm(d.header.obj["alg"], key), LAMBDA a :
                IF ~a.ok THEN throw(a.err, before)
                ELSE IF a.val THEN
                    Let(verifySignature(d.signature, key, d.header.obj["alg"],
                                        base64url_encode(encoder_encode(
                                            JSON_stringify(d.header.obj)))
                                        \o <<46>>
                                        \o base64url_encode(encoder_encode(
                                            JSON_stringify(d.payload.obj)))),
                        LAMBDA sg :
                        IF ~sg.ok THEN throw(sg.err, before \o sg.calls)
                        ELSE IF ~sg.val
                        THEN throw("SignatureMismatch", before \o sg.calls)
                        ELSE [ok |-> TRUE, payload |-> d.payload.obj, err |-> "",
                              calls |-> before \o sg.calls])
                ELSE throw("AlgorithmMismatch", before))))

\* verify(jwt, key) at the time nowMs: [ok, payload, err, calls]; calls lists
\* the steps it took, in order
verify(jwt, key, nowMs) ==
    LET throw(e, c) == [ok |-> FALSE, payload |-> EmptyObject, err |-> e, calls |-> c]
        before == <<"decode", "validate", "verifyAlgorithm">>
    IN
    Let(decode(jwt), LAMBDA d :
        IF ~d.ok THEN throw("MalformedToken", <<"decode">>)
        ELSE Let(validate(d, nowMs), LAMBDA v :
            IF ~v.ok THEN throw(v.err, <<"decode", "validate">>)
            ELSE Let(verifyAlgorithm(d.header.obj["alg"], key), LAMBDA a :
                IF ~a.ok THEN throw(a.err, before)
                ELSE IF a.val THEN
                    Let(verifySignature(d.signature, key, d.header.obj["alg"],
                                        sliceToLast(jwt, 46)), LAMBDA sg :
                        IF ~sg.ok THEN throw(sg.err, before \o sg.calls)
                        ELSE IF ~sg.val
                        THEN throw("SignatureMismatch", before \o sg.calls)
                        ELSE [ok |-> TRUE, payload |-> d.payload.obj, err |-> "",
                              calls |-> before \o sg.calls])
                ELSE throw("AlgorithmMismatch", before))))

\* a signing input with the payload first and the header second
createSigningInput_Swapped(header, payload) ==
    base64url_encode(encoder_encode(JSON_stringify(payload)))
    \o <<46>>
    \o base64url_encode(encoder_encode(JSON_stringify(header)))

\* createSigningInput(header, payload)
createSigningInput(header, payload) ==
    base64url_encode(encoder_encode(JSON_stringify(header)))
    \o <<46>>
    \o base64url_encode(encoder_encode(JSON_stringify(payload)))

\* a create that signs first and checks the key against the algorithm after
create_SignsFirst(header, payload, key) ==
    LET throw(e, c) == [ok |-> FALSE, token |-> <<>>, err |-> e, calls |-> c] IN
    Let(createSigningInput(header, payload), LAMBDA signingInput :
        Let(createSignature(header["alg"], key, signingInput), LAMBDA signature :
            IF ~signature.ok THEN throw(signature.err, signature.calls)
            ELSE Let(verifyAlgorithm(header["alg"], key), LAMBDA a :
                IF ~a.ok
                THEN throw(a.err, signature.calls \o <<"verifyAlgorithm">>)
                ELSE IF a.val
                THEN [ok |-> TRUE,
                      token |-> signingInput \o <<46>> \o signature.sig,
                      err |-> "",
                      calls |-> signature.calls \o <<"verifyAlgorithm">>]
                ELSE throw("AlgorithmMismatch",
                           signature.calls \o <<"verifyAlgorithm">>))))

\* a create without the check of the key against the algorithm
create_Unchecked(header, payload, key) ==
    LET throw(e, c) == [ok |-> FALSE, token |-> <<>>, err |-> e, calls |-> c] IN
    Let(createSigningInput(header, payload), LAMBDA signingInput :
        Let(createSignature(header["alg"], key, signingInput), LAMBDA signature :
            IF ~signature.ok THEN throw(signature.err, signature.calls)
            ELSE [ok |-> TRUE,
                  token |-> signingInput \o <<46>> \o signature.sig,
                  err |-> "", calls |-> signature.calls]))

\* create(header, payload, key): [ok, token, err, calls]
create(header, payload, key) ==
    LET throw(e, c) == [ok |-> FALSE, token |-> <<>>, err |-> e, calls |-> c] IN
    Let(verifyAlgorithm(header["alg"], key), LAMBDA a :
        IF ~a.ok THEN throw(a.err, <<"verifyAlgorithm">>)
        ELSE IF a.val THEN
            Let(createSigningInput(header, payload), LAMBDA signingInput :
                Let(createSignature(header["alg"], key, signingInput),
                    LAMBDA signature :
                        IF ~signature.ok
                        THEN throw(signature.err,
                                   <<"verifyAlgorithm">> \o signature.calls)
                        ELSE [ok |-> TRUE,
                              token |-> signingInput \o <<46>> \o signature.sig,
                              err |-> "",
                              calls |-> <<"verifyAlgorithm">> \o signature.calls]))
        ELSE throw("AlgorithmMismatch", <<"verifyAlgorithm">>))

\* Math.round(ms / 1000) for a whole number ms: the nearest integer, a half
\* goes up (\div rounds down, also below zero)
Math_round_1000(ms) == (ms + 500) \div 1000

\* a getNumericDate that drops the part of a second
getNumericDate_Floor(exp, nowMs) ==
    (IF exp.date THEN exp.v ELSE nowMs + exp.v * 1000) \div 1000

\* getNumericDate(exp): exp is a Date (date, with v = getTime()) or a number
\* of seconds from now (v)
getNumericDate(exp, nowMs) ==
    Math_round_1000(IF exp.date THEN exp.v ELSE nowMs + exp.v * 1000)

\* ------------------------------------------------------------------------
\* The state machine: a caller creates tokens, the holder of a token may
\* alter it, a verifier verifies what it is handed, and time passes.
\* ------------------------------------------------------------------------

VARIABLES
    nowMs,      \* Date.now(), in milliseconds
    args,       \* the header, payload and key the caller hands to create
    minted,     \* the last call of create: its arguments and the token
    jwt,        \* the token string that is presented to verify
    tamper,     \* what was done to jwt since it was created
    last,       \* the last operation and its outcome
    ret,        \* what the last call of verifyAlgorithm or getAlgorithm gave
    pending,    \* the calls of verify, or of handleSignup, that are in flight
    users,      \* the KV entries ["users", username]
    messages,   \* the KV entries ["messages", groupName, timestamp]
    http,       \* the last HTTP request and its response
    operand,    \* the argument of the last call of encode or getNumericDate
    server      \* a Server of std/http: its fields, listeners and calls

vars == <<nowMs, args, minted, jwt, tamper, last, ret, pending, users, messages, http,
          operand, server>>

\* the part of the state that create, verify and the clock leave alone
outside == <<ret, pending, users, messages, http, operand, server>>

\* the usernames of the requests
Usernames == {"ada", "bob"}

\* no call of verifyAlgorithm or getAlgorithm yet
NoRet ==
    [op |-> "none", ok |-> FALSE, val |-> FALSE, err |-> "",
     spec |-> [ok |-> FALSE, name |-> "", hash |-> "", namedCurve |-> "",
               saltLength |-> 0]]

\* an empty KV store: no entry under ["users", u]
NoUsers == [u \in Usernames |-> [value |-> FALSE, salt |-> 0, hash |-> 0]]

\* a request without an Authorization header
NoAuth == [present |-> FALSE, value |-> <<>>]

\* no request yet. A request is kept with its response: the handler (op),
\* username and password of the body, the Authorization header, whether the
\* body is JSON text (bodyOk), the time (at), and of the response the
\* status, the message of the body, the token of a login, the messages of
\* a listing (data); cause is what made the handler refuse
NoHttp ==
    [op |-> "none", user |-> "", password |-> 0, auth |-> NoAuth,
     bodyOk |-> TRUE, at |-> 0, status |-> 0, body |-> "", token |-> <<>>,
     data |-> {}, cause |-> ""]

\* no call of encode or getNumericDate yet
NoOperand == [bytes |-> <<>>, date |-> FALSE, v |-> 0]

\* the number s as argument of getNumericDate
Seconds(s) == [NoOperand EXCEPT !.v = s]

\* new Date(ms) as argument of getNumericDate
DateOf(ms) == [NoOperand EXCEPT !.date = TRUE, !.v = ms]

\* new Server(serverInit): #closed, the signal of
\* #acceptBackoffDelayAbortController, #listeners, #httpConnections; with
\* them the listeners made so far (1..made) and those still open, the
\* connections accepted so far, the HTTP connections still open, the calls
\* of serve and the requests handed to #respond
NoServer ==
    [closed |-> FALSE, aborted |-> FALSE, listeners |-> {}, open |-> {},
     made |-> 0, conns |-> {}, openConns |-> {}, accepted |-> 0, calls |-> <<>>,
     reqs |-> <<>>]

\* nothing happened outside create, verify and the clock
Untouched ==
    /\ ret = NoRet
    /\ pending = <<>>
    /\ users = NoUsers
    /\ messages = {}
    /\ http = NoHttp
    /\ operand = NoOperand
    /\ server = NoServer

Obj(alg, typ, iss, exp, nbf) ==
    [f \in FieldNames |->
        CASE f = "alg" -> alg [] f = "typ" -> typ [] f = "iss" -> iss
          [] f = "exp" -> exp [] f = "nbf" -> nbf]

\* the headers handed to create
Headers ==
    {Obj(a, JStr("JWT"), Undefined, Undefined, Undefined) :
        a \in {JStr("HS256"), JStr("HS512"), JStr("ES256"), JStr("ES512"),
               JStr("none"), Undefined}}

\* the values of exp and nbf that are not numbers
NonNumeric == {JStr("soon"), JNull, JTrue, JArray, JObject}

Claims(exp, nbf) == Obj(Undefined, Undefined, JStr("ada"), exp, nbf)

\* the payloads handed to create
Payloads ==
    {Claims(e, Undefined) : e \in {Undefined, JNum(0), JNum(1), JNum(2)} \cup NonNumeric}
    \cup {Claims(Undefined, n) : n \in {JNum(0), JNum(2), JStr("soon"), JNull}}
    \cup {Claims(JNum(0), JNull), Claims(JNum(0), JNum(2)), Claims(JNum(1), JNum(2))}

\* the keys handed to create and verify; the two HMAC keys with secret 1
\* carry the same key material for different hashes
Keys ==
    {NullKey, RawKey, HmacKey("SHA-256", 1), HmacKey("SHA-256", 2),
     HmacKey("SHA-512", 1), EcKey("P-256", 3)}

\* the arguments of create: every pairing of a header with a key, every
\* payload with the HMAC key that fits HS256, and an expired payload with
\* each other key that fits its header
Inputs ==
    {[header |-> h, payload |-> p, key |-> k] :
        h \in Headers, p \in {Claims(JNum(1), Undefined)}, k \in Keys}
    \cup {x \in [header : Headers, payload : Payloads, key : {HmacKey("SHA-256", 1)}] :
             verifyAlgorithm(x.header["alg"], x.key).val}
    \cup {x \in [header : Headers, payload : {Claims(JNum(0), Undefined)}, key : Keys] :
             verifyAlgorithm(x.header["alg"], x.key).val}

NoTamper == [kind |-> "none", pos |-> 0, bit |-> 0]

Outcome(op, key, ok, err, payload, calls) ==
    [op |-> op, key |-> key, at |-> nowMs, ok |-> ok, err |-> err,
     payload |-> payload, calls |-> calls]

\* arr.join(sep)
join(arr, sep) ==
    Let(arr, LAMBDA a :
        LET j[k \in 1..Len(a)] ==
                IF k = 1 THEN a[1] ELSE j[k - 1] \o <<sep>> \o a[k]
        IN IF Len(a) = 0 THEN <<>> ELSE j[Len(a)])

Init ==
    /\ nowMs = 0
    /\ args \in Inputs
    /\ minted = [ok |-> FALSE, header |-> EmptyObject, payload |-> EmptyObject,
                 key |-> NullKey, token |-> <<>>]
    /\ jwt = <<>>
    /\ tamper = NoTamper
    /\ last = Outcome("none", NullKey, FALSE, "", EmptyObject, <<>>)
    /\ Untouched

\* the caller calls create(header, payload, key) and hands out the token
Create ==
    \E r \in {create(args.header, args.payload, args.key)} :
        /\ minted' = [ok |-> r.ok, header |-> args.header, payload |-> args.payload,
                      key |-> args.key, token |-> r.token]
        /\ jwt' = r.token
        /\ tamper' = NoTamper
        /\ last' = Outcome("create", args.key, r.ok, r.err, EmptyObject, r.calls)
        /\ UNCHANGED <<nowMs, args, outside>>

\* the holder flips bit b of character i of the signature segment
FlipSignatureBit(i, b) ==
    /\ minted.ok /\ tamper = NoTamper
    /\ \E segs \in {split(jwt, 46)} :
        /\ i \in 1..Len(segs[3])
        /\ jwt' = join([segs EXCEPT ![3][i] = FlipBit(segs[3][i], b)], 46)
    /\ tamper' = [kind |-> "flip", pos |-> i, bit |-> b]
    /\ last' = Outcome("tamper", NullKey, FALSE, "", EmptyObject, <<>>)
    /\ UNCHANGED <<nowMs, args, minted, outside>>

\* the holder re-encodes segment k (header or payload) from a JSON text
\* with a space after the opening brace: the same object, another text
Reencode(k) ==
    /\ minted.ok /\ tamper = NoTamper
    /\ \E segs \in {split(jwt, 46)} :
         \E text \in {base64url_decode(segs[k]).bytes} :
            jwt' = join([segs EXCEPT
                            ![k] = base64url_encode(<<text[1], 32>> \o Tail(text))],
                        46)
    /\ tamper' = [kind |-> "reencode", pos |-> k, bit |-> 0]
    /\ last' = Outcome("tamper", NullKey, FALSE, "", EmptyObject, <<>>)
    /\ UNCHANGED <<nowMs, args, minted, outside>>

\* the holder replaces the header by one that names the algorithm alg and
\* keeps or strips the signature
ForgeHeader(alg, strip) ==
    /\ minted.ok /\ tamper = NoTamper
    /\ alg # minted.header["alg"]
    /\ \E segs \in {split(jwt, 46)} :
        jwt' = join(<<base64url_encode(encoder_encode(
                          JSON_stringify([minted.header EXCEPT !["alg"] = alg]))),
                      segs[2],
                      IF strip THEN <<>> ELSE segs[3]>>, 46)
    /\ tamper' = [kind |-> "forge", pos |-> 1, bit |-> IF strip THEN 1 ELSE 0]
    /\ last' = Outcome("tamper", NullKey, FALSE, "", EmptyObject, <<>>)
    /\ UNCHANGED <<nowMs, args, minted, outside>>

\* a verifier calls verify(jwt, key)
Verify(key) ==
    \E r \in {verify(jwt, key, nowMs)} :
        /\ last' = Outcome("verify", key, r.ok, r.err, r.payload, r.calls)
        /\ UNCHANGED <<nowMs, args, minted, jwt, tamper, outside>>

\* time passes, half a second at a time
Tick ==
    /\ nowMs + 500 <= MaxTicks * 500
    /\ nowMs' = nowMs + 500
    /\ last' = Outcome("tick", NullKey, FALSE, "", EmptyObject, <<>>)
    /\ UNCHANGED <<args, minted, jwt, tamper, outside>>

Next ==
    \/ Create
    \/ \E i \in 1..4, b \in 0..7 : FlipSignatureBit(i, b)
    \/ \E k \in {1, 2} : Reencode(k)
    \/ \E alg \in {JStr("none"), JStr("HS256"), JStr("HS512")}, strip \in BOOLEAN :
           ForgeHeader(alg, strip)
    \/ \E key \in Keys : Verify(key)
    \/ Tick

Spec == Init /\ [][Next]_vars

\* ------------------------------------------------------------------------
\* The algorithm registry and the check of a key against an algorithm, on
\* every pairing of an alg value with a key
\* ------------------------------------------------------------------------

\* the identifiers getAlgorithm knows
Registered ==
    {"HS256", "HS384", "HS512", "PS256", "PS384", "PS512", "RS256", "RS384",
     "RS512", "ES256", "ES384"}

\* the values of header.alg: the registered identifiers, ES512, "none", a
\* string that names no algorithm, a number and no alg at all
AlgValues ==
    {JStr(a) : a \in Registered \cup {"ES512", "none", "soon"}}
    \cup {JNum(1), Undefined}

Hashes == {"SHA-256", "SHA-384", "SHA-512"}

\* the keys: none, raw bytes, and CryptoKeys of every family
AlgKeys ==
    {NullKey, RawKey, AesKey(1)}
    \cup {HmacKey(h, 1) : h \in Hashes}
    \cup {RsaKey(n, h, 2) : n \in {"RSA-PSS", "RSASSA-PKCS1-v1_5"}, h \in Hashes}
    \cup {EcKey(c, 3) : c \in {"P-256", "P-384", "P-521"}}

InitAlg ==
    /\ nowMs = 0
    /\ args \in {[header |-> Obj(a, JStr("JWT"), Undefined, Undefined, Undefined),
                   payload |-> Claims(Undefined, Undefined),
                   key |-> k] : a \in AlgValues, k \in AlgKeys}
    /\ minted = [ok |-> FALSE, header |-> EmptyObject, payload |-> EmptyObject,
                 key |-> NullKey, token |-> <<>>]
    /\ jwt = <<>>
    /\ tamper = NoTamper
    /\ last = Outcome("none", NullKey, FALSE, "", EmptyObject, <<>>)
    /\ Untouched

\* verify(alg, key) of algorithm.ts is called with header.alg and the key
CheckAlgorithm ==
    /\ \E r \in {verifyAlgorithm(args.header["alg"], args.key)} :
           ret' = [NoRet EXCEPT !.op = "verifyAlgorithm", !.ok = r.ok,
                                !.val = r.val, !.err = r.err]
    /\ UNCHANGED <<nowMs, args, minted, jwt, tamper, last, pending, users,
                   messages, http, operand, server>>

\* getAlgorithm(alg) is called with header.alg
Resolve ==
    /\ \E r \in {getAlgorithm(args.header["alg"])} :
           ret' = [NoRet EXCEPT !.op = "getAlgorithm", !.ok = r.ok,
                                !.err = IF r.ok THEN "" ELSE "UnsupportedAlgorithm",
                                !.spec = r]
    /\ UNCHANGED <<nowMs, args, minted, jwt, tamper, last, pending, users,
                   messages, http, operand, server>>

NextAlg ==
    \/ CheckAlgorithm
    \/ Resolve
    \/ Create

SpecAlg == InitAlg /\ [][NextAlg]_vars

\* ------------------------------------------------------------------------
\* verify on token strings of any shape
\* ------------------------------------------------------------------------

\* the base64url segment of a JSON text
SegmentOf(text) == base64url_encode(encoder_encode(text))

HeaderSeg == SegmentOf(JSON_stringify(
                 Obj(JStr("HS256"), JStr("JWT"), Undefined, Undefined, Undefined)))
PayloadSeg == SegmentOf(JSON_stringify(Claims(Undefined, Undefined)))

\* the signature segment create gives HeaderSeg.PayloadSeg under the first
\* HMAC key
SignatureSeg ==
    createSignature(JStr("HS256"), HmacKey("SHA-256", 1),
                    HeaderSeg \o <<46>> \o PayloadSeg).sig

\* segments of every kind: an object, an object without alg, the JSON texts
\* "[]", "7", "n" (null) and "u" (a string), a text that is no JSON, the
\* empty segment, a segment with a character outside the alphabet, one of a
\* length no base64url string has, and a signature
Segments ==
    {HeaderSeg, PayloadSeg, SegmentOf(<<91, 93>>), SegmentOf(<<55>>),
     SegmentOf(<<110>>), SegmentOf(<<117>>), SegmentOf(<<123, 65>>),
     <<>>, <<33, 33>>, <<65>>, SignatureSeg}

\* the segments of the longer token strings
FewSegments == {HeaderSeg, PayloadSeg, SignatureSeg, <<>>}

\* token strings of one to five segments
TokenStrings ==
    {join(segs, 46) :
        segs \in UNION {[1..n -> Segments] : n \in 1..3}
                \cup UNION {[1..n -> FewSegments] : n \in 4..5}}

Given == [kind |-> "given", pos |-> 0, bit |-> 0]

InitTokens ==
    /\ nowMs = 0
    /\ args = [header |-> EmptyObject, payload |-> EmptyObject, key |-> NullKey]
    /\ minted = [ok |-> FALSE, header |-> EmptyObject, payload |-> EmptyObject,
                 key |-> NullKey, token |-> <<>>]
    /\ jwt \in TokenStrings
    /\ tamper = Given
    /\ last = Outcome("none", NullKey, FALSE, "", EmptyObject, <<>>)
    /\ Untouched

NextTokens == \E key \in Keys : Verify(key)

SpecTokens == InitTokens /\ [][NextTokens]_vars

\* ------------------------------------------------------------------------
\* Concurrent calls of verify. verify is an async function: it runs from the
\* call to its one await (of verifySignature) without interruption, and
\* from the await to its end when the awaited promise has settled; other
\* calls and the clock may run in between.
\* ------------------------------------------------------------------------

\* the header { alg: "HS256", typ: "JWT" }
HS256Header == Obj(JStr("HS256"), JStr("JWT"), Undefined, Undefined, Undefined)

\* a call of verify that has come to its end, by return or by throw
settled(ok, payload, err) ==
    [phase |-> "settled", ok |-> ok, payload |-> payload, err |-> err,
     alg |-> Undefined, signature |-> <<>>, signingInput |-> <<>>]

\* verify(jwt, key) from the call to the await: decode, validate with the
\* clock, verifyAlgorithm, and the arguments of verifySignature
verifyBegin(token, key, now) ==
    Let(decode(token), LAMBDA d :
        IF ~d.ok THEN settled(FALSE, EmptyObject, "MalformedToken")
        ELSE Let(validate(d, now), LAMBDA v :
            IF ~v.ok THEN settled(FALSE, EmptyObject, v.err)
            ELSE Let(verifyAlgorithm(d.header.obj["alg"], key), LAMBDA a :
                IF ~a.ok THEN settled(FALSE, EmptyObject, a.err)
                ELSE IF ~a.val
                THEN settled(FALSE, EmptyObject, "AlgorithmMismatch")
                ELSE [phase |-> "awaiting", ok |-> FALSE,
                      payload |-> d.payload.obj, err |-> "",
                      alg |-> d.header.obj["alg"], signature |-> d.signature,
                      signingInput |-> sliceToLast(token, 46)])))

\* verify(jwt, key) from the await to its end, with the locals of the call
verifyEnd(run, key) ==
    Let(verifySignature(run.signature, key, run.alg, run.signingInput),
        LAMBDA sg :
            IF ~sg.ok THEN settled(FALSE, EmptyObject, sg.err)
            ELSE IF ~sg.val THEN settled(FALSE, EmptyObject, "SignatureMismatch")
            ELSE settled(TRUE, run.payload, ""))

\* the locals a call resumes with are its own
awaited_Latest(calls, i) == calls[Len(calls)].run

awaited(calls, i) == calls[i].run

\* what verify gives for (jwt, key) at time now when no other call runs
alone(token, key, now) ==
    Let(verify(token, key, now), LAMBDA r : settled(r.ok, r.payload, r.err))

\* the tokens of the calls: signed for HS256 with secret 1 (without exp,
\* with exp 0, with nbf 2), signed with secret 2, unsigned with alg "none",
\* and two segments
CallTokens ==
    {create(HS256Header, Claims(e, n), HmacKey("SHA-256", 1)).token :
        <<e, n>> \in {<<Undefined, Undefined>>, <<JNum(0), Undefined>>,
                      <<Undefined, JNum(2)>>}}
    \cup {create(HS256Header, Claims(Undefined, Undefined),
                  HmacKey("SHA-256", 2)).token,
           create(Obj(JStr("none"), JStr("JWT"), Undefined, Undefined, Undefined),
                  Claims(Undefined, Undefined), NullKey).token,
           HeaderSeg \o <<46>> \o PayloadSeg}

\* the key all calls of a run share
CallKeys == {HmacKey("SHA-256", 1), HmacKey("SHA-512", 1), NullKey}

InitCalls ==
    /\ nowMs = 0
    /\ args \in {[header |-> EmptyObject, payload |-> EmptyObject, key |-> k] :
                   k \in CallKeys}
    /\ minted = [ok |-> FALSE, header |-> EmptyObject, payload |-> EmptyObject,
                 key |-> NullKey, token |-> <<>>]
    /\ jwt = <<>>
    /\ tamper = NoTamper
    /\ last = Outcome("none", NullKey, FALSE, "", EmptyObject, <<>>)
    /\ Untouched

\* verify(token, key) is called: it runs to its await or to a throw
Call(token) ==
    /\ Len(pending) < MaxCalls
    /\ \A i \in 1..Len(pending) : pending[i].jwt # token
    /\ pending' = Append(pending,
                         [jwt |-> token, at |-> nowMs,
                          alone |-> alone(token, args.key, nowMs),
                          run |-> verifyBegin(token, args.key, nowMs)])
    /\ UNCHANGED <<nowMs, args, minted, jwt, tamper, last, ret, users, messages,
                   http, operand, server>>

\* the promise call i awaits has settled: the call runs to its end
Resume(i) ==
    /\ i \in 1..Len(pending)
    /\ pending[i].run.phase = "awaiting"
    /\ pending' = [pending EXCEPT ![i].run = verifyEnd(awaited(pending, i), args.key)]
    /\ UNCHANGED <<nowMs, args, minted, jwt, tamper, last, ret, users, messages,
                   http, operand, server>>

NextCalls ==
    \/ \E token \in CallTokens : Call(token)
    \/ \E i \in 1..MaxCalls : Resume(i)
    \/ Tick

SpecCalls == InitCalls /\ [][NextCalls]_vars

\* ------------------------------------------------------------------------
\* index.ts: the HTTP handlers over the KV store
\* ------------------------------------------------------------------------

\* the passwords and the salts of hashPassword, as numbers
Passwords == {1, 2}
Salts == {1, 2}

\* the hex digest hashPassword and verifyPassword derive from a password
\* and a salt
hashHex(password, salt) == 3 * salt + password

\* hashPassword(password), with the salt crypto.getRandomValues gave
hashPassword(password, salt) ==
    [value |-> TRUE, salt |-> salt, hash |-> hashHex(password, salt)]

\* verifyPassword(password, storedHash)
verifyPassword(password, storedHash) ==
    storedHash.hash = hashHex(password, storedHash.salt)

\* generateToken(username): const payload = { iss, exp }
generateToken_payload(username, now) ==
    Obj(Undefined, Undefined, JStr(username),
        JNum(getNumericDate(Seconds(60 * 60), now)), Undefined)

\* generateToken(username): what create returns or throws
generateToken(username, now) ==
    create(Obj(JStr("HS256"), JStr("JWT"), Undefined, Undefined, Undefined),
           generateToken_payload(username, now),
           RawKey)

\* !v
Falsy(v) ==
    \/ v \in {Undefined, JNull, JNum(0), JStr("")}
    \/ (v.t = "boolean" /\ v.n = 0)

\* getUsernameFromToken(token): the username, or null with what made
\* verify throw
getUsernameFromToken(token, now) ==
    IF ~token.present \/ token.s = <<>>
    THEN [username |-> JNull, cause |-> "NoToken"]
    ELSE Let(verify(token.s, RawKey, now), LAMBDA r :
             IF r.ok THEN [username |-> r.payload["iss"], cause |-> ""]
             ELSE [username |-> JNull, cause |-> r.err])

\* req.headers.get("Authorization")?.split(" ")[1]
BearerOf(auth) ==
    IF ~auth.present THEN [present |-> FALSE, s |-> <<>>]
    ELSE Let(split(auth.value, 32), LAMBDA parts :
             IF Len(parts) >= 2 THEN [present |-> TRUE, s |-> parts[2]]
             ELSE [present |-> FALSE, s |-> <<>>])

\* the header value "Bearer <token>"
Authorization(token) ==
    [present |-> TRUE, value |-> <<66, 101, 97, 114, 101, 114, 32>> \o token]

\* the HS256 key over the secret, and tokens a client may present: signed
\* with it (expiring, not yet valid, with an exp that is no number), signed
\* for HS512, signed with another secret, unsigned with alg "none", two
\* segments, and empty
SecretKey == HmacKey("SHA-256", 1)
BearerTokens ==
    {create(HS256Header, Claims(e, n), SecretKey).token :
        <<e, n>> \in {<<JNum(0), Undefined>>, <<Undefined, JNum(2)>>,
                      <<JStr("soon"), Undefined>>}}
    \cup {create(Obj(JStr("HS512"), JStr("JWT"), Undefined, Undefined, Undefined),
                  Claims(JNum(2), Undefined), HmacKey("SHA-512", 1)).token,
           create(HS256Header, Claims(JNum(2), Undefined), HmacKey("SHA-256", 2)).token,
           create(Obj(JStr("none"), JStr("JWT"), Undefined, Undefined, Undefined),
                  Claims(JNum(2), Undefined), NullKey).token,
           HeaderSeg \o <<46>> \o PayloadSeg,
           <<>>}

\* the Authorization headers of the requests
AuthHeaders ==
    {NoAuth} \cup {Authorization(t) : t \in BearerTokens}

Groups == {"g1"}
Texts == {"hi"}

\* a request and its response
Exchange(op, user, password, auth, bodyOk, status, body, token, data, cause) ==
    [op |-> op, user |-> user, password |-> password, auth |-> auth,
     bodyOk |-> bodyOk, at |-> nowMs, status |-> status, body |-> body,
     token |-> token, data |-> data, cause |-> cause]

\* the response of serve when the handler throws
InternalServerError(op, user, password, auth, bodyOk, cause) ==
    Exchange(op, user, password, auth, bodyOk, 500, "Internal Server Error",
             <<>>, {}, cause)

\* what the handlers leave alone
library == <<nowMs, args, minted, jwt, tamper, last, ret, pending, operand, server>>

InitApp ==
    /\ nowMs = 0
    /\ args = [header |-> EmptyObject, payload |-> EmptyObject, key |-> NullKey]
    /\ minted = [ok |-> FALSE, header |-> EmptyObject, payload |-> EmptyObject,
                 key |-> NullKey, token |-> <<>>]
    /\ jwt = <<>>
    /\ tamper = NoTamper
    /\ last = Outcome("none", NullKey, FALSE, "", EmptyObject, <<>>)
    /\ Untouched

\* a signup that stores the user without looking for an existing one
handleSignup_Overwrite(username, password, salt, bodyOk) ==
    /\ IF ~bodyOk
       THEN /\ http' = InternalServerError("signup", "", 0, NoAuth, bodyOk,
                                           "SyntaxError")
            /\ UNCHANGED users
       ELSE /\ users' = [users EXCEPT ![username] = hashPassword(password, salt)]
            /\ http' = Exchange("signup", username, password, NoAuth, bodyOk,
                                IF users[username].value THEN 409 ELSE 201,
                                IF users[username].value
                                THEN "User already exists"
                                ELSE "User registered successfully",
                                <<>>, {}, "")
    /\ UNCHANGED <<library, messages>>

\* POST /signup
handleSignup(username, password, salt, bodyOk) ==
    /\ IF ~bodyOk
       THEN /\ http' = InternalServerError("signup", "", 0, NoAuth, bodyOk,
                                           "SyntaxError")
            /\ UNCHANGED users
       ELSE IF users[username].value
       THEN /\ http' = Exchange("signup", username, password, NoAuth, bodyOk, 409,
                                "User already exists", <<>>, {}, "Exists")
            /\ UNCHANGED users
       ELSE /\ users' = [users EXCEPT ![username] = hashPassword(password, salt)]
            /\ http' = Exchange("signup", username, password, NoAuth, bodyOk, 201,
                                "User registered successfully", <<>>, {}, "")
    /\ UNCHANGED <<library, messages>>

\* a login that answers 401 when generateToken throws
handleLogin_Caught(username, password, bodyOk) ==
    /\ IF ~bodyOk
       THEN http' = InternalServerError("login", "", 0, NoAuth, bodyOk,
                                        "SyntaxError")
       ELSE IF ~users[username].value
               \/ ~verifyPassword(password, users[username])
       THEN http' = Exchange("login", username, password, NoAuth, bodyOk, 401,
                             "Invalid username or password", <<>>, {},
                             "Credentials")
       ELSE \E r \in {generateToken(username, nowMs)} :
                http' = IF r.ok
                        THEN Exchange("login", username, password, NoAuth, bodyOk,
                                      200, "Login successful", r.token, {}, "")
                        ELSE Exchange("login", username, password, NoAuth, bodyOk,
                                      401, "Invalid username or password", <<>>,
                                      {}, r.err)
    /\ UNCHANGED <<library, users, messages>>

\* POST /login
handleLogin(username, password, bodyOk) ==
    /\ IF ~bodyOk
       THEN http' = InternalServerError("login", "", 0, NoAuth, bodyOk,
                                        "SyntaxError")
       ELSE IF ~users[username].value
               \/ ~verifyPassword(password, users[username])
       THEN http' = Exchange("login", username, password, NoAuth, bodyOk, 401,
                             "Invalid username or password", <<>>, {},
                             "Credentials")
       ELSE \E r \in {generateToken(username, nowMs)} :
                http' = IF r.ok
                        THEN Exchange("login", username, password, NoAuth, bodyOk,
                                      200, "Login successful", r.token, {}, "")
                        ELSE InternalServerError("login", username, password,
                                                 NoAuth, bodyOk, r.err)
    /\ UNCHANGED <<library, users, messages>>

\* POST /send-message
handleSendMessage(auth, bodyOk, groupName, message) ==
    /\ IF ~bodyOk
       THEN /\ http' = InternalServerError("send-message", "", 0, auth, bodyOk,
                                           "SyntaxError")
            /\ UNCHANGED messages
       ELSE \E u \in {getUsernameFromToken(BearerOf(auth), nowMs)} :
                IF Falsy(u.username)
                THEN /\ http' = Exchange("send-message", "", 0, auth, bodyOk, 401,
                                         "Invalid or missing token", <<>>, {},
                                         IF u.cause = "" THEN "NoIss" ELSE u.cause)
                     /\ UNCHANGED messages
                ELSE /\ messages' =
                          {m \in messages :
                              ~(m.groupName = groupName /\ m.timestamp = nowMs)}
                          \cup {[groupName |-> groupName, timestamp |-> nowMs,
                                  from |-> u.username.s, message |-> message]}
                     /\ http' = Exchange("send-message", u.username.s, 0, auth,
                                         bodyOk, 200, "Message sent successfully",
                                         <<>>, {}, "")
    /\ UNCHANGED <<library, users>>

\* GET /messages
handleGetMessages(auth, groupName) ==
    /\ \E u \in {getUsernameFromToken(BearerOf(auth), nowMs)} :
           http' = IF Falsy(u.username)
                   THEN Exchange("messages", "", 0, auth, TRUE, 401,
                                 "Invalid or missing token", <<>>, {},
                                 IF u.cause = "" THEN "NoIss" ELSE u.cause)
                   ELSE Exchange("messages", u.username.s, 0, auth, TRUE, 200, "",
                                 <<>>, {m \in messages : m.groupName = groupName},
                                 "")
    /\ UNCHANGED <<library, users, messages>>

\* a delete that empties the whole store for either type
handleDelete_Everything(type) ==
    /\ IF type \in {"accounts", "msgs"}
       THEN /\ users' = NoUsers
            /\ messages' = {}
            /\ http' = Exchange("delete", "", 0, NoAuth, TRUE, 200,
                                IF type = "accounts"
                                THEN "All accounts deleted successfully"
                                ELSE "All messages deleted successfully",
                                <<>>, {}, "")
       ELSE /\ UNCHANGED <<users, messages>>
            /\ http' = Exchange("delete", "", 0, NoAuth, TRUE, 400,
                                "Invalid type parameter", <<>>, {}, "Type")
    /\ UNCHANGED library

\* DELETE /delete
handleDelete(type) ==
    /\ IF type = "accounts"
       THEN /\ users' = NoUsers
            /\ UNCHANGED messages
            /\ http' = Exchange("delete", "", 0, NoAuth, TRUE, 200,
                                "All accounts deleted successfully", <<>>, {}, "")
       ELSE IF type = "msgs"
       THEN /\ messages' = {}
            /\ UNCHANGED users
            /\ http' = Exchange("delete", "", 0, NoAuth, TRUE, 200,
                                "All messages deleted successfully", <<>>, {}, "")
       ELSE /\ UNCHANGED <<users, messages>>
            /\ http' = Exchange("delete", "", 0, NoAuth, TRUE, 400,
                                "Invalid type parameter", <<>>, {}, "Type")
    /\ UNCHANGED library

\* serve: one request at a time is taken through its handler
NextApp ==
    \/ \E u \in Usernames, p \in Passwords, salt \in Salts, bodyOk \in BOOLEAN :
           handleSignup(u, p, salt, bodyOk)
    \/ \E u \in Usernames, p \in Passwords, bodyOk \in BOOLEAN :
           handleLogin(u, p, bodyOk)
    \/ \E auth \in AuthHeaders, bodyOk \in BOOLEAN, g \in Groups, t \in Texts :
           handleSendMessage(auth, bodyOk, g, t)
    \/ \E auth \in AuthHeaders, g \in Groups : handleGetMessages(auth, g)
    \/ \E type \in {"accounts", "msgs", "all"} : handleDelete(type)
    \/ Tick

SpecApp == InitApp /\ [][NextApp]_vars

\* The KV store is persistent: the server may start on a store that holds
\* users and messages of an earlier run.
StoredUsers ==
    [Usernames -> {NoUsers["ada"]}
                  \cup {hashPassword(p, salt) : p \in Passwords, salt \in Salts}]
StoredMessages ==
    {[groupName |-> g, timestamp |-> 0, from |-> "ada", message |-> "hi"] :
        g \in {"g1", "g2"}}

InitStore ==
    /\ nowMs = 0
    /\ args = [header |-> EmptyObject, payload |-> EmptyObject, key |-> NullKey]
    /\ minted = [ok |-> FALSE, header |-> EmptyObject, payload |-> EmptyObject,
                 key |-> NullKey, token |-> <<>>]
    /\ jwt = <<>>
    /\ tamper = NoTamper
    /\ last = Outcome("none", NullKey, FALSE, "", EmptyObject, <<>>)
    /\ ret = NoRet
    /\ pending = <<>>
    /\ users \in StoredUsers
    /\ messages \in SUBSET StoredMessages
    /\ http = NoHttp
    /\ operand = NoOperand
    /\ server = NoServer

\* the requests that carry no bearer token
NextStore ==
    \/ \E u \in Usernames, p \in Passwords, salt \in Salts, bodyOk \in BOOLEAN :
           handleSignup(u, p, salt, bodyOk)
    \/ \E u \in Usernames, p \in Passwords, bodyOk \in BOOLEAN :
           handleLogin(u, p, bodyOk)
    \/ \E type \in {"accounts", "msgs", "all"} : handleDelete(type)
    \/ Tick

SpecStore == InitStore /\ [][NextStore]_vars

\* ------------------------------------------------------------------------
\* index.ts: the handler given to serve, which routes a request by its
\* method and the pathname of its URL
\* ------------------------------------------------------------------------

\* no request received yet
NoRequest == [method |-> "", pathname |-> ""]

Methods_ == {"GET", "POST", "DELETE", "PUT"}
Pathnames ==
    {"/signup", "/login", "/send-message", "/messages", "/delete", "/",
     "/signup/", "/Login"}

\* a router that looks at the pathname only
route_AnyMethod(method, pathname) ==
    IF pathname = "/signup" THEN "handleSignup"
    ELSE IF pathname = "/login" THEN "handleLogin"
    ELSE IF pathname = "/send-message" THEN "handleSendMessage"
    ELSE IF pathname = "/messages" THEN "handleGetMessages"
    ELSE IF pathname = "/delete" THEN "handleDelete"
    ELSE "Not Found"

\* the if chain of the handler: the function that is called for a request,
\* or "Not Found"
route(method, pathname) ==
    IF method = "POST" /\ pathname = "/signup" THEN "handleSignup"
    ELSE IF method = "POST" /\ pathname = "/login" THEN "handleLogin"
    ELSE IF method = "POST" /\ pathname = "/send-message" THEN "handleSendMessage"
    ELSE IF method = "GET" /\ pathname = "/messages" THEN "handleGetMessages"
    ELSE IF method = "DELETE" /\ pathname = "/delete" THEN "handleDelete"
    ELSE "Not Found"

\* return new Response("Not Found", { status: 404 })
NotFound ==
    /\ http' = Exchange("not-found", "", 0, NoAuth, TRUE, 404, "Not Found",
                        <<>>, {}, "")
    /\ UNCHANGED <<users, messages>>
    /\ UNCHANGED library

InitRoute ==
    /\ nowMs = 0
    /\ args = [header |-> EmptyObject, payload |-> EmptyObject, key |-> NullKey]
    /\ minted = [ok |-> FALSE, header |-> EmptyObject, payload |-> EmptyObject,
                 key |-> NullKey, token |-> <<>>]
    /\ jwt = <<>>
    /\ tamper = NoTamper
    /\ last = Outcome("none", NullKey, FALSE, "", EmptyObject, <<>>)
    /\ ret = NoRet
    /\ pending = <<>>
    /\ users \in {NoUsers, [u \in Usernames |-> hashPassword(1, 1)]}
    /\ messages \in {{}, StoredMessages}
    /\ http = NoHttp
    /\ operand = NoRequest
    /\ server = NoServer

\* a request arrives: req.method and new URL(req.url).pathname
Receive(method, pathname) ==
    /\ operand' = [method |-> method, pathname |-> pathname]
    /\ UNCHANGED <<nowMs, args, minted, jwt, tamper, last, ret, pending, users,
                   messages, http, server>>

\* the handler given to serve runs for the request received
Dispatch ==
    /\ operand # NoRequest
    /\ \E h \in {route(operand.method, operand.pathname)} :
         \/ /\ h = "handleSignup"
            /\ \E u \in Usernames, p \in Passwords, salt \in Salts, bodyOk \in BOOLEAN :
                  handleSignup(u, p, salt, bodyOk)
         \/ /\ h = "handleLogin"
            /\ \E u \in Usernames, p \in Passwords, bodyOk \in BOOLEAN :
                  handleLogin(u, p, bodyOk)
         \/ /\ h = "handleSendMessage"
            /\ \E auth \in AuthHeaders, bodyOk \in BOOLEAN, g \in Groups, t \in Texts :
                  handleSendMessage(auth, bodyOk, g, t)
         \/ /\ h = "handleGetMessages"
            /\ \E auth \in AuthHeaders, g \in Groups : handleGetMessages(auth, g)
         \/ /\ h = "handleDelete"
            /\ \E type \in {"accounts", "msgs", "all"} : handleDelete(type)
         \/ /\ h = "Not Found"
            /\ NotFound

NextRoute ==
    \/ \E method \in Methods_, pathname \in Pathnames : Receive(method, pathname)
    \/ Dispatch

SpecRoute == InitRoute /\ [][NextRoute]_vars

\* ------------------------------------------------------------------------
\* index.ts: handleSignup from await to await. The handlers of several
\* requests are in flight at once: serve does not wait for the response of
\* one request before it calls the handler for the next
\* ------------------------------------------------------------------------

\* handleSignup(req) is called: const { username, password } = await req.json()
\* (pc is the await the call is at; status 0: no response yet)
handleSignup_called(username, password) ==
    [username |-> username, password |-> password, pc |-> "json",
     hashed |-> NoUsers[username], status |-> 0]

\* req.json() settled: await kv.get(["users", username])
handleSignup_parsed(call) == [call EXCEPT !.pc = "get"]

\* kv.get settled with existingUser: 409 if it has a value, else
\* await hashPassword(password), which draws its salt at once
handleSignup_read(call, existingUser, salt) ==
    IF existingUser.value
    THEN [call EXCEPT !.pc = "done", !.status = 409]
    ELSE [call EXCEPT !.pc = "hash", !.hashed = hashPassword(call.password, salt)]

\* hashPassword settled: await kv.set(["users", username], ...)
handleSignup_hashed(call) == [call EXCEPT !.pc = "set"]

\* kv.set settled: 201
handleSignup_stored(call) == [call EXCEPT !.pc = "done", !.status = 201]

InitSignups ==
    /\ nowMs = 0
    /\ args = [header |-> EmptyObject, payload |-> EmptyObject, key |-> NullKey]
    /\ minted = [ok |-> FALSE, header |-> EmptyObject, payload |-> EmptyObject,
                 key |-> NullKey, token |-> <<>>]
    /\ jwt = <<>>
    /\ tamper = NoTamper
    /\ last = Outcome("none", NullKey, FALSE, "", EmptyObject, <<>>)
    /\ ret = NoRet
    /\ pending = <<>>
    /\ users \in {NoUsers, [NoUsers EXCEPT !["bob"] = hashPassword(1, 1)]}
    /\ messages = {}
    /\ http = NoHttp
    /\ operand = NoOperand
    /\ server = NoServer

\* what a step of a signup leaves alone
signupFrame == <<nowMs, args, minted, jwt, tamper, last, ret, messages, operand, server>>

\* POST /signup arrives
SignupArrives(username, password) ==
    /\ Len(pending) < MaxSignups
    /\ pending' = Append(pending, handleSignup_called(username, password))
    /\ UNCHANGED <<users, http, signupFrame>>

SignupParsed(i) ==
    /\ i \in 1..Len(pending)
    /\ pending[i].pc = "json"
    /\ pending' = [pending EXCEPT ![i] = handleSignup_parsed(@)]
    /\ UNCHANGED <<users, http, signupFrame>>

SignupRead(i, salt) ==
    /\ i \in 1..Len(pending)
    /\ pending[i].pc = "get"
    /\ \E call \in {handleSignup_read(pending[i], users[pending[i].username], salt)} :
         /\ pending' = [pending EXCEPT ![i] = call]
         /\ http' = IF call.status = 409
                    THEN Exchange("signup", call.username, call.password, NoAuth,
                                  TRUE, 409, "User already exists", <<>>, {},
                                  "Exists")
                    ELSE http
    /\ UNCHANGED <<users, signupFrame>>

SignupHashed(i) ==
    /\ i \in 1..Len(pending)
    /\ pending[i].pc = "hash"
    /\ pending' = [pending EXCEPT ![i] = handleSignup_hashed(@)]
    /\ UNCHANGED <<users, http, signupFrame>>

SignupStored(i) ==
    /\ i \in 1..Len(pending)
    /\ pending[i].pc = "set"
    /\ users' = [users EXCEPT ![pending[i].username] = pending[i].hashed]
    /\ pending' = [pending EXCEPT ![i] = handleSignup_stored(@)]
    /\ http' = Exchange("signup", pending[i].username, pending[i].password, NoAuth,
                        TRUE, 201, "User registered successfully", <<>>, {}, "")
    /\ UNCHANGED signupFrame

NextSignups ==
    \/ \E username \in Usernames, password \in Passwords :
          SignupArrives(username, password)
    \/ \E i \in 1..MaxSignups : SignupParsed(i)
    \/ \E i \in 1..MaxSignups, salt \in Salts : SignupRead(i, salt)
    \/ \E i \in 1..MaxSignups : SignupHashed(i)
    \/ \E i \in 1..MaxSignups : SignupStored(i)

SpecSignups == InitSignups /\ [][NextSignups]_vars

\* ------------------------------------------------------------------------
\* std/encoding/base64.ts: encode and decode applied to byte sequences
\* ------------------------------------------------------------------------

\* octets with every bit set and clear, and with the sextets 62 and 63
Octets == {0, 63, 85, 170, 251, 255}

\* the elements of a sequence
Range(seq) == {seq[i] : i \in 1..Len(seq)}

\* the byte sequences of every length up to n
ByteSeqs(n) == UNION {[1..l -> Octets] : l \in 0..n}

\* no call of create or verify: the token variables stay as constructed
NoTokens ==
    /\ args = [header |-> EmptyObject, payload |-> EmptyObject, key |-> NullKey]
    /\ minted = [ok |-> FALSE, header |-> EmptyObject, payload |-> EmptyObject,
                 key |-> NullKey, token |-> <<>>]
    /\ jwt = <<>>
    /\ tamper = NoTamper
    /\ last = Outcome("none", NullKey, FALSE, "", EmptyObject, <<>>)

InitB64 ==
    /\ nowMs = 0
    /\ NoTokens
    /\ ret = NoRet
    /\ pending = <<>>
    /\ users = NoUsers
    /\ messages = {}
    /\ http = NoHttp
    /\ operand \in {[NoOperand EXCEPT !.bytes = b] : b \in ByteSeqs(MaxBytes)}
    /\ server = NoServer

\* const text = encode(bytes)
EncodeCall ==
    /\ ret.op = "none"
    /\ ret' = [NoRet EXCEPT !.op = "encode", !.ok = TRUE,
                            !.val = base64_encode(operand.bytes)]
    /\ UNCHANGED <<nowMs, args, minted, jwt, tamper, last, pending, users,
                   messages, http, operand, server>>

\* decode(text) for the text encode returned; atob throws on bad input
DecodeCall ==
    /\ ret.op = "encode"
    /\ \E r \in {base64_decode(ret.val)} :
          ret' = [NoRet EXCEPT !.op = "decode", !.ok = r.ok, !.val = r.bytes]
    /\ UNCHANGED <<nowMs, args, minted, jwt, tamper, last, pending, users,
                   messages, http, operand, server>>

NextB64 == EncodeCall \/ DecodeCall

SpecB64 == InitB64 /\ [][NextB64]_vars

\* ------------------------------------------------------------------------
\* djwt/mod.ts getNumericDate and its caller generateToken, at given times
\* ------------------------------------------------------------------------

\* values of Date.now() around the half and the whole second
Clock == {0, 1, 499, 500, 501, 999, 1000, 1499, 1500, 1501}

\* getTime() of the Dates handed to getNumericDate, before the epoch too
Instants == {-1501, -1500, -1499, -501, -500, -499, -1} \cup Clock \cup {2500, 3600499}

\* the offsets in seconds handed to getNumericDate
Offsets == {-2, -1, 0, 1, 2, 60 * 60}

InitDate ==
    /\ nowMs \in Clock
    /\ NoTokens
    /\ ret = NoRet
    /\ pending = <<>>
    /\ users = NoUsers
    /\ messages = {}
    /\ http = NoHttp
    /\ operand \in {Seconds(s) : s \in Offsets} \cup {DateOf(ms) : ms \in Instants}
    /\ server = NoServer

\* getNumericDate(operand)
NumericDateCall ==
    /\ ret' = [NoRet EXCEPT !.op = "getNumericDate", !.ok = TRUE,
                            !.val = getNumericDate(operand, nowMs)]
    /\ UNCHANGED <<nowMs, args, minted, jwt, tamper, last, pending, users,
                   messages, http, operand, server>>

\* generateToken(username) up to its call of create: the exp of its payload
GenerateTokenCall(username) ==
    /\ ret' = [NoRet EXCEPT !.op = "generateToken", !.ok = TRUE,
                            !.val = generateToken_payload(username, nowMs)["exp"].n]
    /\ UNCHANGED <<nowMs, args, minted, jwt, tamper, last, pending, users,
                   messages, http, operand, server>>

NextDate ==
    \/ NumericDateCall
    \/ \E username \in Usernames : GenerateTokenCall(username)

SpecDate == InitDate /\ [][NextDate]_vars

\* ------------------------------------------------------------------------
\* std/http/server.ts: a Server, the calls of its methods and its accept
\* loops. An async method runs from one await to the next in one step.
\* ------------------------------------------------------------------------

ERROR_SERVER_CLOSED == "Server closed"
INITIAL_ACCEPT_BACKOFF_DELAY == 5
MAX_ACCEPT_BACKOFF_DELAY == 1000

\* a method that threw err, and one that went on, with the Server after it
Threw(s, err) == [threw |-> TRUE, err |-> err, s |-> s]
Went(s) == [threw |-> FALSE, err |-> "", s |-> s]

\* the errors of listener.accept() after which #accept backs off
TransientErrors ==
    {"BadResource", "InvalidData", "UnexpectedEof", "ConnectionReset", "NotConnected"}

\* the outcomes of listener.accept() on an open listener: a connection, a
\* TLS handshake error, another error
AcceptOutcomes == {"conn", "ConnectionReset", "Interrupted"}

\* a serve that tracks the listener and accepts on a closed Server too
Server_serve_Unchecked(s, listener) ==
    Went([s EXCEPT !.listeners = @ \cup {listener},
                   !.calls = Append(@, [listener |-> listener, pc |-> "accept",
                                        backoff |-> 0, conn |-> 0,
                                        err |-> ""])])

\* serve(listener) up to its first await: the closed check, #trackListener,
\* and #accept up to listener.accept()
Server_serve(s, listener) ==
    IF s.closed THEN Threw(s, ERROR_SERVER_CLOSED)
    ELSE Went([s EXCEPT !.listeners = @ \cup {listener},
                        !.calls = Append(@, [listener |-> listener, pc |-> "accept",
                                             backoff |-> 0, conn |-> 0,
                                             err |-> ""])])

\* listenAndServe(): the closed check, Deno.listen (which may throw, as for
\* an address in use), serve(listener)
Server_listenAndServe(s, listenOk) ==
    IF s.closed THEN Threw(s, ERROR_SERVER_CLOSED)
    ELSE IF ~listenOk THEN Threw(s, "AddrInUse")
    ELSE Server_serve([s EXCEPT !.made = @ + 1, !.open = @ \cup {s.made + 1}],
                      s.made + 1)

\* listenAndServeTls(certFile, keyFile): the same with Deno.listenTls
Server_listenAndServeTls(s, listenOk) ==
    IF s.closed THEN Threw(s, ERROR_SERVER_CLOSED)
    ELSE IF ~listenOk THEN Threw(s, "AddrInUse")
    ELSE Server_serve([s EXCEPT !.made = @ + 1, !.open = @ \cup {s.made + 1}],
                      s.made + 1)

\* close(): the tracked listeners and connections are closed and forgotten,
\* the backoff delays are aborted
Server_close(s) ==
    IF s.closed THEN Threw(s, ERROR_SERVER_CLOSED)
    ELSE Went([s EXCEPT !.closed = TRUE,
                        !.open = @ \ s.listeners,
                        !.listeners = {},
                        !.aborted = TRUE,
                        !.openConns = @ \ s.conns,
                        !.conns = {}])

\* a finally block of serve that untracks the listener and leaves it open
Server_finally_Untrack(s, i) ==
    [s EXCEPT !.listeners = @ \ {s.calls[i].listener},
              !.calls[i].pc = IF s.calls[i].err = "" THEN "returned" ELSE "threw"]

\* the finally block of serve, call i: #untrackListener, listener.close()
\* (its error for a closed listener is caught); the call returns or throws
Server_finally(s, i) ==
    [s EXCEPT !.listeners = @ \ {s.calls[i].listener},
              !.open = @ \ {s.calls[i].listener},
              !.calls[i].pc = IF s.calls[i].err = "" THEN "returned" ELSE "threw"]

\* #closeHttpConn(httpConn): #untrackHttpConnection and httpConn.close()
\* (its error for a closed connection is caught)
Server_closeHttpConn(s, c) ==
    [s EXCEPT !.conns = @ \ {c}, !.openConns = @ \ {c}]

\* a #serveHttp that awaits the first request on a closed Server too
Server_serveHttp_Unchecked(s, c) == s

\* #serveHttp(httpConn) up to its first await: on a closed Server the loop
\* is not entered and the connection is closed, otherwise
\* httpConn.nextRequest() is awaited
Server_serveHttp(s, c) ==
    IF s.closed THEN Server_closeHttpConn(s, c) ELSE s

\* what the handler of a request may do: return a Response, return one
\* whose body was consumed already, or throw
HandlerOutcomes == {"response", "consumed", "throws"}

\* #respond(requestEvent) for a request of connection c, up to its first
\* await: the handler is called
Server_respond(s, c) ==
    [s EXCEPT !.reqs = Append(@, [conn |-> c, pc |-> "handler", handler |-> "",
                                  by |-> "", status |-> 0, body |-> "",
                                  sent |-> 0, delivered |-> FALSE])]

\* a #respond that sends nothing when the handler throws
Server_respond_handled_Silent(s, r, outcome) ==
    IF outcome = "response"
    THEN [s EXCEPT !.reqs[r].handler = outcome, !.reqs[r].pc = "respondWith",
                   !.reqs[r].by = "handler", !.reqs[r].status = 200,
                   !.reqs[r].body = "OK", !.reqs[r].sent = @ + 1]
    ELSE [s EXCEPT !.reqs[r].handler = outcome, !.reqs[r].pc = "done"]

\* #respond of request r after the handler settled: its response is handed
\* to requestEvent.respondWith; when it threw, or the body of its response
\* was used, onError is called with the error
Server_respond_handled(s, r, outcome) ==
    IF outcome = "response"
    THEN [s EXCEPT !.reqs[r].handler = outcome, !.reqs[r].pc = "respondWith",
                   !.reqs[r].by = "handler", !.reqs[r].status = 200,
                   !.reqs[r].body = "OK", !.reqs[r].sent = @ + 1]
    ELSE [s EXCEPT !.reqs[r].handler = outcome, !.reqs[r].pc = "onError"]

\* #respond of request r after the default onError returned: its Response
\* is handed to requestEvent.respondWith
Server_respond_onError(s, r) ==
    [s EXCEPT !.reqs[r].pc = "respondWith", !.reqs[r].by = "onError",
              !.reqs[r].status = 500, !.reqs[r].body = "Internal Server Error",
              !.reqs[r].sent = @ + 1]

\* #respond of request r after respondWith settled: its error is caught
Server_respond_sent(s, r, ok) ==
    [s EXCEPT !.reqs[r].pc = "done", !.reqs[r].delivered = ok]

\* a backoff that doubles without an upper limit
Server_backoff_Uncapped(acceptBackoffDelay) ==
    IF acceptBackoffDelay = 0 THEN INITIAL_ACCEPT_BACKOFF_DELAY
    ELSE acceptBackoffDelay * 2

\* the backoff delay after one more transient error
Server_backoff(acceptBackoffDelay) ==
    LET d == IF acceptBackoffDelay = 0 THEN INITIAL_ACCEPT_BACKOFF_DELAY
             ELSE acceptBackoffDelay * 2
    IN IF d >= MAX_ACCEPT_BACKOFF_DELAY THEN MAX_ACCEPT_BACKOFF_DELAY ELSE d

\* an accept loop that does not look at #closed
Server_loop_Forever(s, i) ==
    [s EXCEPT !.calls[i].pc = "accept", !.calls[i].conn = 0]

\* while (!this.#closed) of #accept, call i: the next listener.accept(), or
\* the end of the loop
Server_loop(s, i) ==
    [s EXCEPT !.calls[i].pc = IF s.closed THEN "finally" ELSE "accept",
              !.calls[i].conn = 0]

\* what the server steps leave alone
others == <<nowMs, args, minted, jwt, tamper, last, pending, users, messages, http,
            operand>>

\* what the last step was: a method or a step of a call, and what it threw
Step(op, ok, err) ==
    [NoRet EXCEPT !.op = op, !.ok = ok, !.err = err]

InitServer ==
    /\ nowMs = 0
    /\ NoTokens
    /\ ret = NoRet
    /\ pending = <<>>
    /\ users = NoUsers
    /\ messages = {}
    /\ http = NoHttp
    /\ operand = NoOperand
    /\ server = NoServer

\* the caller opens a listener: Deno.listen(...)
Listen ==
    /\ server.made < MaxListeners
    /\ server' = [server EXCEPT !.made = @ + 1, !.open = @ \cup {server.made + 1}]
    /\ ret' = Step("listen", TRUE, "")
    /\ UNCHANGED others

\* server.serve(listener) with a listener the caller opened
Serve(listener) ==
    /\ server.closed \/ Len(server.calls) < MaxServes
    /\ \E r \in {Server_serve(server, listener)} :
          /\ server' = r.s
          /\ ret' = Step("serve", ~r.threw, r.err)
    /\ UNCHANGED others

\* server.listenAndServe()
ListenAndServe(listenOk) ==
    /\ server.closed \/ ~listenOk
         \/ (Len(server.calls) < MaxServes /\ server.made < MaxListeners)
    /\ \E r \in {Server_listenAndServe(server, listenOk)} :
          /\ server' = r.s
          /\ ret' = Step("listenAndServe", ~r.threw, r.err)
    /\ UNCHANGED others

\* server.listenAndServeTls(certFile, keyFile)
ListenAndServeTls(listenOk) ==
    /\ server.closed \/ ~listenOk
         \/ (Len(server.calls) < MaxServes /\ server.made < MaxListeners)
    /\ \E r \in {Server_listenAndServeTls(server, listenOk)} :
          /\ server' = r.s
          /\ ret' = Step("listenAndServeTls", ~r.threw, r.err)
    /\ UNCHANGED others

\* server.close()
Close ==
    /\ \E r \in {Server_close(server)} :
          /\ server' = r.s
          /\ ret' = Step("close", ~r.threw, r.err)
    /\ UNCHANGED others

\* await listener.accept() of call i settles: BadResource on a closed
\* listener, otherwise one of AcceptOutcomes. After a transient error the
\* backoff is set and the delay awaited; another error leaves #accept
AcceptSettles(i, outcome) ==
    /\ server.calls[i].pc = "accept"
    /\ IF server.calls[i].listener \in server.open
       THEN outcome \in AcceptOutcomes
            /\ (outcome = "conn" => server.accepted < MaxConns)
       ELSE outcome = "BadResource"
    /\ server' =
         IF outcome = "conn"
         THEN [server EXCEPT !.accepted = @ + 1,
                             !.calls[i].pc = "conn",
                             !.calls[i].conn = server.accepted + 1]
         ELSE IF outcome \in TransientErrors
         THEN [server EXCEPT !.calls[i].pc = "delay",
                             !.calls[i].backoff = Server_backoff(@)]
         ELSE [server EXCEPT !.calls[i].pc = "finally", !.calls[i].err = outcome]
    /\ ret' = Step("accept", outcome = "conn", IF outcome = "conn" THEN "" ELSE outcome)
    /\ UNCHANGED others

\* #accept of call i goes on with the connection it was given: the backoff
\* is reset, Deno.serveHttp(conn) may throw, the HTTP connection is tracked
\* and #serveHttp runs up to its first await; then the loop
AcceptContinues(i, upgraded) ==
    /\ server.calls[i].pc = "conn"
    /\ \E c \in {server.calls[i].conn} :
         \E s \in {[server EXCEPT !.calls[i].backoff = 0]} :
           server' =
             IF ~upgraded THEN Server_loop(s, i)
             ELSE Server_loop(
                    Server_serveHttp([s EXCEPT !.openConns = @ \cup {c},
                                              !.conns = @ \cup {c}], c), i)
    /\ ret' = Step("serveHttp", upgraded, "")
    /\ UNCHANGED others

\* await delay(acceptBackoffDelay, { signal }) of call i settles, by the
\* timer or by the abort of close(); both go on with the loop
DelayEnds(i) ==
    /\ server.calls[i].pc = "delay"
    /\ server' = Server_loop(server, i)
    /\ ret' = Step("delay", TRUE, "")
    /\ UNCHANGED others

\* serve of call i resumes after #accept returned or threw
Finally(i) ==
    /\ server.calls[i].pc = "finally"
    /\ server' = Server_finally(server, i)
    /\ ret' = Step("finally", server.calls[i].err = "", server.calls[i].err)
    /\ UNCHANGED others

\* httpConn.nextRequest() of a tracked connection gives null or throws:
\* #serveHttp leaves its loop and calls #closeHttpConn
ConnectionEnds(c) ==
    /\ c \in server.conns
    /\ server' = Server_closeHttpConn(server, c)
    /\ ret' = Step("closeHttpConn", TRUE, "")
    /\ UNCHANGED others

\* await httpConn.nextRequest() of the tracked connection c gives a request:
\* #respond is called and not awaited, and the next request is awaited
RequestArrives(c) ==
    /\ c \in server.conns
    /\ Len(server.reqs) < MaxRequests
    /\ server' = Server_respond(server, c)
    /\ ret' = Step("nextRequest", TRUE, "")
    /\ UNCHANGED others

\* await this.#handler(request, connInfo) of request r settles
HandlerSettles(r, outcome) ==
    /\ server.reqs[r].pc = "handler"
    /\ server' = Server_respond_handled(server, r, outcome)
    /\ ret' = Step("handler", outcome = "response",
                   IF outcome = "response" THEN "" ELSE outcome)
    /\ UNCHANGED others

\* await this.#onError(error) of request r settles
OnErrorSettles(r) ==
    /\ server.reqs[r].pc = "onError"
    /\ server' = Server_respond_onError(server, r)
    /\ ret' = Step("onError", TRUE, "")
    /\ UNCHANGED others

\* await requestEvent.respondWith(response) of request r settles; it fails
\* on a closed connection and may fail on an open one
RespondWithSettles(r, ok) ==
    /\ server.reqs[r].pc = "respondWith"
    /\ ok => server.reqs[r].conn \in server.openConns
    /\ server' = Server_respond_sent(server, r, ok)
    /\ ret' = Step("respondWith", ok, IF ok THEN "" ELSE "Http")
    /\ UNCHANGED others

NextServer ==
    \/ Listen
    \/ \E listener \in 1..server.made : Serve(listener)
    \/ \E listenOk \in BOOLEAN : ListenAndServe(listenOk)
    \/ \E listenOk \in BOOLEAN : ListenAndServeTls(listenOk)
    \/ Close
    \/ \E i \in 1..Len(server.calls) :
         \E outcome \in AcceptOutcomes \cup {"BadResource"} : AcceptSettles(i, outcome)
    \/ \E i \in 1..Len(server.calls) : \E upgraded \in BOOLEAN : AcceptContinues(i, upgraded)
    \/ \E i \in 1..Len(server.calls) : DelayEnds(i)
    \/ \E i \in 1..Len(server.calls) : Finally(i)
    \/ \E c \in 1..server.accepted : ConnectionEnds(c)

SpecServer == InitServer /\ [][NextServer]_vars

\* ------------------------------------------------------------------------
\* std/http/server.ts serve(handler, options), as index.ts calls it: one
\* Server accepting on one listener, its connections and their requests
\* ------------------------------------------------------------------------

\* serve(handler, { port }) up to return await s: new Server, Deno.listen,
\* server.serve(listener)
InitHttp ==
    /\ nowMs = 0
    /\ NoTokens
    /\ ret = NoRet
    /\ pending = <<>>
    /\ users = NoUsers
    /\ messages = {}
    /\ http = NoHttp
    /\ operand = NoOperand
    /\ server = Server_serve([NoServer EXCEPT !.made = 1, !.open = {1}], 1).s

NextHttp ==
    \/ Close
    \/ \E i \in 1..Len(server.calls) :
         \E outcome \in AcceptOutcomes \cup {"BadResource"} : AcceptSettles(i, outcome)
    \/ \E i \in 1..Len(server.calls) : \E upgraded \in BOOLEAN : AcceptContinues(i, upgraded)
    \/ \E i \in 1..Len(server.calls) : DelayEnds(i)
    \/ \E i \in 1..Len(server.calls) : Finally(i)
    \/ \E c \in 1..server.accepted : ConnectionEnds(c)
    \/ \E c \in 1..server.accepted : RequestArrives(c)
    \/ \E r \in 1..Len(server.reqs) : \E outcome \in HandlerOutcomes : HandlerSettles(r, outcome)
    \/ \E r \in 1..Len(server.reqs) : OnErrorSettles(r)
    \/ \E r \in 1..Len(server.reqs) : \E ok \in BOOLEAN : RespondWithSettles(r, ok)

SpecHttp == InitHttp /\ [][NextHttp]_vars

\* What the runtime guarantees to a call i of serve: a pending accept on a
\* closed listener is rejected, a delay settles (by its timer at the latest),
\* and a continuation whose promise has settled is run. An accept on an
\* open listener may wait for ever.
FairCall(i) ==
    /\ WF_vars(i <= Len(server.calls) /\ AcceptSettles(i, "BadResource"))
    /\ WF_vars(i <= Len(server.calls) /\ \E upgraded \in BOOLEAN : AcceptContinues(i, upgraded))
    /\ WF_vars(i <= Len(server.calls) /\ DelayEnds(i))
    /\ WF_vars(i <= Len(server.calls) /\ Finally(i))

FairHttp == SpecHttp /\ \A i \in 1..MaxServes : FairCall(i)

\* ------------------------------------------------------------------------
\* std@0.92.0 http/server.ts: the Server that is iterated for requests, on
\* one accepted connection. Here server holds that Server: #closing, the
\* tracked connections, the open ones, the position of iterateHttpRequests
\* and the ServerRequests it has yielded.
\* ------------------------------------------------------------------------

\* new Server(listener), iterated: listener.accept() is awaited
NoIterServer ==
    [closing |-> FALSE, connections |-> {}, open |-> {}, pc |-> "accept",
     reqs |-> <<>>]

\* a ServerRequest as readRequest returns it: #done is not resolved,
\* respond has not been called; the handler may read the body or part of it
NewRequest ==
    [done |-> "pending", resolves |-> 0, w |-> "idle", finalized |-> FALSE]

\* what await readRequest(conn, reader) may give on an open connection
ReadOutcomes == {"request", "null", "InvalidData", "BadResource"}

\* the end of iterateHttpRequests after its loop: untrackConnection(conn),
\* conn.close()
Iter_end(s) ==
    [s EXCEPT !.connections = {}, !.open = {}, !.pc = "ended"]

\* while (!this.#closing) of iterateHttpRequests: the next readRequest, or
\* the end
Iter_loop(s) ==
    IF s.closing THEN Iter_end(s) ELSE [s EXCEPT !.pc = "read"]

\* acceptConnAndIterateHttpRequests after a connection was accepted:
\* trackConnection(conn), and iterateHttpRequests up to its first await
Iter_accepted(s) ==
    Iter_loop([s EXCEPT !.connections = {1}, !.open = {1}])

\* iterateHttpRequests after readRequest settled: a request is yielded; a
\* parse error is answered with 400 before the loop is left; null and other
\* errors leave the loop
Iter_read(s, outcome) ==
    IF outcome = "request"
    THEN [s EXCEPT !.reqs = Append(@, NewRequest), !.pc = "yielded"]
    ELSE IF outcome = "InvalidData" THEN [s EXCEPT !.pc = "badRequest"]
    ELSE Iter_end(s)

\* an iterateHttpRequests that reads the next request right after the yield
Iter_resumed_Eager(s) == Iter_loop(s)

\* iterateHttpRequests is resumed after the yield: await request.done
Iter_resumed(s) == [s EXCEPT !.pc = "awaitDone"]

\* ServerRequest.respond(r) of request q after writeResponse settled: on an
\* error the connection is closed; #done is resolved with the error or
\* undefined; the error is thrown again
ServerRequest_respond(s, q, ok) ==
    IF ok
    THEN [s EXCEPT !.reqs[q].w = "written",
                   !.reqs[q].done = IF @ = "pending" THEN "ok" ELSE @,
                   !.reqs[q].resolves = @ + 1]
    ELSE [s EXCEPT !.reqs[q].w = "failed",
                   !.open = {},
                   !.reqs[q].done = IF @ = "pending" THEN "err" ELSE @,
                   !.reqs[q].resolves = @ + 1]

\* iterateHttpRequests after request.done resolved: with an error the
\* connection is untracked and the generator returns, otherwise
\* request.finalize() is awaited
Iter_done(s) ==
    IF s.reqs[Len(s.reqs)].done = "err"
    THEN [s EXCEPT !.connections = {}, !.pc = "returned"]
    ELSE [s EXCEPT !.pc = "finalize"]

\* iterateHttpRequests after request.finalize() settled: the unread body
\* was consumed and the loop goes on, or the read threw and the loop is left
Iter_finalized(s, ok) ==
    IF ok THEN Iter_loop([s EXCEPT !.reqs[Len(s.reqs)].finalized = TRUE])
    ELSE Iter_end(s)

InitIter ==
    /\ nowMs = 0
    /\ NoTokens
    /\ ret = NoRet
    /\ pending = <<>>
    /\ users = NoUsers
    /\ messages = {}
    /\ http = NoHttp
    /\ operand = NoOperand
    /\ server = NoIterServer

\* await this.listener.accept() gives a connection
IterAccepts ==
    /\ server.pc = "accept"
    /\ ~server.closing
    /\ server' = Iter_accepted(server)
    /\ ret' = Step("accept", TRUE, "")
    /\ UNCHANGED others

\* await readRequest(conn, reader) settles; on a closed connection it gives
\* no request
ReadSettles(outcome) ==
    /\ server.pc = "read"
    /\ outcome = "request" => (1 \in server.open /\ Len(server.reqs) < MaxRequests)
    /\ server' = Iter_read(server, outcome)
    /\ ret' = Step("readRequest", outcome = "request",
                   IF outcome = "request" THEN "" ELSE outcome)
    /\ UNCHANGED others

\* await writeResponse(writer, { status: 400, ... }) settles, and break
BadRequestAnswered ==
    /\ server.pc = "badRequest"
    /\ server' = Iter_end(server)
    /\ ret' = Step("badRequest", TRUE, "")
    /\ UNCHANGED others

\* the consumer asks the iterator for the next request
IterResumes ==
    /\ server.pc = "yielded"
    /\ server' = Iter_resumed(server)
    /\ ret' = Step("next", TRUE, "")
    /\ UNCHANGED others

\* the handler calls request.respond(r) for the request it was given:
\* writeResponse is awaited
RespondStarts(q) ==
    /\ server.reqs[q].w = "idle"
    /\ server' = [server EXCEPT !.reqs[q].w = "writing"]
    /\ ret' = Step("respond", TRUE, "")
    /\ UNCHANGED others

\* await writeResponse(this.w, r) of request q settles; it fails on a closed
\* connection and may fail on an open one
WriteSettles(q, ok) ==
    /\ server.reqs[q].w = "writing"
    /\ ok => 1 \in server.open
    /\ server' = ServerRequest_respond(server, q, ok)
    /\ ret' = Step("writeResponse", ok, IF ok THEN "" ELSE "BrokenPipe")
    /\ UNCHANGED others

\* await request.done of the request yielded last settles
DoneSettles ==
    /\ server.pc = "awaitDone"
    /\ server.reqs[Len(server.reqs)].done # "pending"
    /\ server' = Iter_done(server)
    /\ ret' = Step("done", server.reqs[Len(server.reqs)].done = "ok", "")
    /\ UNCHANGED others

\* await request.finalize() settles; reading the body of a closed
\* connection throws
FinalizeSettles(ok) ==
    /\ server.pc = "finalize"
    /\ ok => 1 \in server.open
    /\ server' = Iter_finalized(server, ok)
    /\ ret' = Step("finalize", ok, "")
    /\ UNCHANGED others

\* server.close(): #closing, listener.close(), conn.close() for the
\* tracked connections
IterClose ==
    /\ ~server.closing
    /\ server' = [server EXCEPT !.closing = TRUE, !.open = @ \ server.connections]
    /\ ret' = Step("close", TRUE, "")
    /\ UNCHANGED others

NextIter ==
    \/ IterAccepts
    \/ \E outcome \in ReadOutcomes : ReadSettles(outcome)
    \/ BadRequestAnswered
    \/ IterResumes
    \/ \E q \in 1..Len(server.reqs) : RespondStarts(q)
    \/ \E q \in 1..Len(server.reqs) : \E ok \in BOOLEAN : WriteSettles(q, ok)
    \/ DoneSettles
    \/ \E ok \in BOOLEAN : FinalizeSettles(ok)
    \/ IterClose

SpecIter == InitIter /\ [][NextIter]_vars

\* ------------------------------------------------------------------------
\* Properties
\* ------------------------------------------------------------------------

\* the last operation was a call of verify
Verified == last.op = "verify"

\* jwt is the token create returned, unaltered
Pristine == minted.ok /\ tamper = NoTamper

\* what decode makes of the presented token
Decoded == decode(jwt)

\* the time claims of payload p are numbers (or absent) and hold at time at,
\* with the leeway of one second
ClaimsCurrent(p, at) ==
    /\ p["exp"] = Undefined \/ (p["exp"].t = "number" /\ at <= (p["exp"].n + 1) * 1000)
    /\ p["nbf"] = Undefined \/ (p["nbf"].t = "number" /\ at >= (p["nbf"].n - 1) * 1000)

\* the errors that say that key and algorithm disagree
AlgMismatchErrs == {"AlgorithmMismatch", "AlgAllowsNoKey", "AlgDemandsKey"}

\* the errors of the claims validation
ClaimErrs == {"InvalidClaims", "TokenExpired", "TokenNotYetValid"}

\* the algorithm a key is bound to
KeyAlg(k) == <<k.kind, k.name, k.hash, k.namedCurve>>

\* C1: a token that create returned for (header, payload, key), verified with
\* the same key while its exp and nbf hold, is accepted and verify returns
\* the payload create was given, member for member
C1_RoundTrip ==
    (Verified /\ Pristine /\ last.key = minted.key
       /\ ClaimsCurrent(minted.payload, last.at))
    => (last.ok /\ last.payload = minted.payload)

C1_Witness ==
    /\ Verified /\ Pristine /\ last.key = minted.key /\ last.ok
    /\ minted.payload["exp"] = JNum(1) /\ minted.payload["nbf"] = JNum(2)

\* C2 as stated: a token created with algorithm A and verified with a key
\* of another algorithm always fails with an algorithm-mismatch error
C2_Original ==
    (Verified /\ Pristine /\ last.key.kind = "CryptoKey"
       /\ KeyAlg(last.key) # KeyAlg(minted.key))
    => (~last.ok /\ last.err \in AlgMismatchErrs)

\* C2: a token created with algorithm A and verified with a key of another
\* algorithm is never accepted; the error is an algorithm mismatch whenever
\* the token's exp and nbf hold, and the error of the claims otherwise
C2_AlgorithmPinning ==
    (Verified /\ Pristine /\ last.key.kind = "CryptoKey"
       /\ KeyAlg(last.key) # KeyAlg(minted.key))
    => /\ ~last.ok
       /\ IF ClaimsCurrent(minted.payload, last.at)
          THEN last.err \in AlgMismatchErrs
          ELSE last.err \in ClaimErrs

C2_Witness ==
    /\ Verified /\ Pristine /\ last.err = "AlgorithmMismatch"
    /\ last.key.secret = minted.key.secret /\ last.key # minted.key

\* C3 as stated: a valid token with one bit of its signature segment flipped
\* fails with SignatureMismatch
C3_Original ==
    (Verified /\ minted.ok /\ tamper.kind = "flip" /\ last.key = minted.key
       /\ ClaimsCurrent(minted.payload, last.at))
    => (~last.ok /\ last.err = "SignatureMismatch")

\* C3: a valid token with one bit of its signature segment flipped fails
\* with MalformedToken when the segment no longer decodes, and with
\* SignatureMismatch when it decodes to other signature bytes; when it
\* decodes to the same bytes (the bit is one of the unused trailing bits of
\* the last character) the token is still accepted
C3_TamperDetection ==
    (Verified /\ minted.ok /\ tamper.kind = "flip" /\ last.key = minted.key
       /\ ClaimsCurrent(minted.payload, last.at))
    => \A d \in {Decoded} :
           IF ~d.ok THEN ~last.ok /\ last.err = "MalformedToken"
           ELSE IF d.signature = decode(minted.token).signature THEN last.ok
           ELSE ~last.ok /\ last.err = "SignatureMismatch"

C3_Witness ==
    /\ Verified /\ minted.ok /\ tamper.kind = "flip" /\ last.key = minted.key
    /\ last.err = "SignatureMismatch"

\* C4: no token whose header names the algorithm "none" is issued by create,
\* and verify returns no payload for such a token, whatever the key argument
\* is, the absence of a key included
C4_NoneRejected ==
    /\ (last.op = "create" /\ last.ok) => minted.header["alg"] # JStr("none")
    /\ (Verified /\ last.ok) => decode(jwt).header.obj["alg"] # JStr("none")

\* the primitives that compute or check a signature
Primitives == {"crypto.subtle.sign", "crypto.subtle.verify"}

\* key fits the algorithm alg
Compatible(alg, key) == verifyAlgorithm(alg, key) = [ok |-> TRUE, val |-> TRUE, err |-> ""]

\* C5: create and verify invoke a signing primitive only after the check of
\* the key against the algorithm, and when the two disagree they fail
\* without invoking it
C5_CompatibilityFirst ==
    /\ last.op \in {"create", "verify"}
       => \A i \in 1..Len(last.calls) :
              last.calls[i] \in Primitives
              => \E j \in 1..(i - 1) : last.calls[j] = "verifyAlgorithm"
    /\ (last.op = "create" /\ ~Compatible(minted.header["alg"], last.key))
       => (~last.ok /\ \A i \in 1..Len(last.calls) : last.calls[i] \notin Primitives)
    /\ Verified
       => \A d \in {Decoded} :
              (d.ok /\ ~Compatible(d.header.obj["alg"], last.key))
              => (~last.ok /\ \A i \in 1..Len(last.calls) :
                                 last.calls[i] \notin Primitives)

C5_Witness ==
    /\ last.op = "create" /\ last.err = "AlgorithmMismatch"
    /\ last.key.kind = "CryptoKey" /\ last.calls = <<"verifyAlgorithm">>

\* the decoded token d has a header with a string alg and a payload that
\* is an object: validate reaches the checks of exp and nbf
Checkable(d) ==
    /\ d.ok
    /\ typeof(d.header.obj["alg"]) = "string"
    /\ isObject(d.payload.val)

\* the signature of the presented token, decoded as d, is the one the key
\* last.key yields for the text before the last '.' of the token
SignatureValid(d) ==
    /\ Compatible(d.header.obj["alg"], last.key)
    /\ \A sg \in {verifySignature(d.signature, last.key, d.header.obj["alg"],
                                  sliceToLast(jwt, 46))} : sg.ok /\ sg.val

\* "validate" is among the first k calls
ValidatedWithin(calls, k) == \E j \in 1..k : calls[j] = "validate"

\* C6 as stated: a token whose signature does not verify fails with
\* SignatureMismatch whatever its exp and nbf are, and an error of the time
\* claims is reported only for tokens whose signature is valid
C6_Original ==
    Verified
    => \A d \in {Decoded} :
           (Checkable(d) /\ Compatible(d.header.obj["alg"], last.key))
           => /\ ~SignatureValid(d) => last.err = "SignatureMismatch"
              /\ last.err \in {"TokenExpired", "TokenNotYetValid"}
                 => SignatureValid(d)

\* C6: verify validates the claims before it checks the signature: a token
\* whose exp or nbf does not hold fails with the error of the claims whether
\* or not its signature verifies, SignatureMismatch is reported only for
\* tokens whose exp and nbf hold, and no signature is checked before the
\* claims were validated
C6_ClaimsBeforeSignature ==
    Verified
    => \A d \in {Decoded} :
           Checkable(d)
           => /\ ~ClaimsCurrent(d.payload.obj, last.at)
                 => (~last.ok /\ last.err \in ClaimErrs)
              /\ last.err = "SignatureMismatch"
                 => ClaimsCurrent(d.payload.obj, last.at)
              /\ \A i \in 1..Len(last.calls) :
                     last.calls[i] \in Primitives
                     => ValidatedWithin(last.calls, i - 1)

C6_Witness ==
    /\ Verified /\ tamper.kind = "flip" /\ last.key = minted.key
    /\ last.err = "TokenExpired"
    /\ \A d \in {Decoded} : Checkable(d) /\ ~SignatureValid(d)

\* C7: verify checks the signature over the text of the received token
\* before its last '.': a token whose header or payload segment was encoded
\* anew from another JSON text of the same object decodes to the header and
\* the payload of the token that was signed, is another string, and fails
\* with SignatureMismatch under the signature of that token
C7_ExactSigningInput ==
    (Verified /\ minted.ok /\ tamper.kind = "reencode" /\ last.key = minted.key
       /\ last.key.kind = "CryptoKey"
       /\ ClaimsCurrent(minted.payload, last.at))
    => \A d \in {Decoded} :
           /\ d.ok
           /\ d.header.obj = minted.header /\ d.payload.obj = minted.payload
           /\ d.signature = decode(minted.token).signature
           /\ sliceToLast(jwt, 46) # sliceToLast(minted.token, 46)
           /\ ~last.ok /\ last.err = "SignatureMismatch"

C7_Witness ==
    /\ Verified /\ minted.ok /\ tamper.kind = "reencode" /\ tamper.pos = 2
    /\ last.key = minted.key /\ last.key.kind = "CryptoKey"
    /\ last.err = "SignatureMismatch"
    /\ decode(jwt).payload.obj = minted.payload

\* the decoded token d carries a numeric exp, and nothing but its expiry can
\* make validate fail before it reads exp
HasNumericExp(d) ==
    /\ Checkable(d)
    /\ typeof(d.payload.obj["exp"]) = "number"
    /\ typeof(d.payload.obj["nbf"]) \in {"undefined", "number"}

\* C8: with the leeway of 1 second a token with a numeric exp is rejected as
\* TokenExpired exactly when now > exp + 1 (now in seconds, Date.now() / 1000)
C8_ExpiryBoundary ==
    Verified
    => \A d \in {Decoded} :
           HasNumericExp(d)
           => (last.err = "TokenExpired"
                 <=> last.at > (d.payload.obj["exp"].n + 1) * 1000)

\* exp = now - 2 is rejected as expired
C8_Witness ==
    /\ Verified /\ last.err = "TokenExpired" /\ ~last.ok
    /\ \A d \in {Decoded} :
           HasNumericExp(d) /\ d.payload.obj["exp"].n * 1000 = last.at - 2000

\* the decoded token d carries a numeric nbf and an exp that does not make
\* validate fail at the time at
HasNumericNbf(d, at) ==
    /\ Checkable(d)
    /\ typeof(d.payload.obj["nbf"]) = "number"
    /\ \/ d.payload.obj["exp"] = Undefined
       \/ /\ typeof(d.payload.obj["exp"]) = "number"
          /\ at <= (d.payload.obj["exp"].n + 1) * 1000

\* C9: with the leeway of 1 second a token with a numeric nbf (that is not
\* expired) is rejected as TokenNotYetValid exactly when now < nbf - 1
C9_NotBeforeBoundary ==
    Verified
    => \A d \in {Decoded} :
           HasNumericNbf(d, last.at)
           => (last.err = "TokenNotYetValid"
                 <=> last.at < (d.payload.obj["nbf"].n - 1) * 1000)

\* nbf = now + 2 is rejected as too early
C9_Witness ==
    /\ Verified /\ last.err = "TokenNotYetValid" /\ ~last.ok
    /\ \A d \in {Decoded} :
           HasNumericNbf(d, last.at)
           /\ d.payload.obj["nbf"].n * 1000 = last.at + 2000

\* the decoded token d carries an exp or an nbf that is not a number
HasNonNumericClaim(d) ==
    /\ Checkable(d)
    /\ \E c \in {"exp", "nbf"} :
           d.payload.obj[c] # Undefined /\ typeof(d.payload.obj[c]) # "number"

\* C10: a token whose exp or nbf is present and not a number is rejected
\* with InvalidClaims, whatever the key, the signature and the time
C10_NonNumericClaims ==
    Verified
    => \A d \in {Decoded} :
           HasNonNumericClaim(d) => (~last.ok /\ last.err = "InvalidClaims")

\* a valid signature, an exp in the past and an nbf that is null
C10_Witness ==
    /\ Verified /\ Pristine /\ last.key = minted.key
    /\ last.err = "InvalidClaims"
    /\ \A d \in {Decoded} :
           HasNonNumericClaim(d) /\ d.payload.obj["nbf"] = JNull
           /\ typeof(d.payload.obj["exp"]) = "number"

\* the segments of the presented token
Segs == split(jwt, 46)

\* the errors verify raises for a token that is not well formed: what decode
\* throws, and what validate throws for a header without a string alg and
\* for a payload that is no object
MalformedErrs == {"MalformedToken", "AlgNotString", "ClaimsNotObject"}

\* C11: a token string that does not split on '.' into exactly three
\* segments is no triple for decode and fails in verify with MalformedToken,
\* whatever its segments and the key are
C11_SegmentCount ==
    (Verified /\ Len(Segs) # 3)
    => (~Decoded.ok /\ ~last.ok /\ last.err = "MalformedToken"
          /\ last.calls = <<"decode">>)

\* four segments, the first three of which are a token the key accepts
C11_Witness ==
    /\ Verified /\ Len(Segs) = 4 /\ last.err = "MalformedToken"
    /\ SubSeq(Segs, 1, 3) = <<HeaderSeg, PayloadSeg, SignatureSeg>>
    /\ last.key = HmacKey("SHA-256", 1)

\* segment seg is base64url of a JSON text of an object
IsObjectSegment(seg) ==
    \A b \in {base64url_decode(seg)} :
        b.ok /\ \A v \in {JSON_parse(decoder_decode(b.bytes))} :
                    v.ok /\ v.val = JObject

\* C12: a three-segment token whose header or payload segment is no
\* base64url, no JSON or no JSON object fails as malformed, for the header
\* as for the payload; the third segment is only decoded to bytes, so a
\* token with two object segments and a base64url third segment is a triple
\* for decode whatever those bytes are
C12_MalformedSegments ==
    (Verified /\ Len(Segs) = 3)
    => /\ (~IsObjectSegment(Segs[1]) \/ ~IsObjectSegment(Segs[2]))
          => (~last.ok /\ last.err \in MalformedErrs)
       /\ (IsObjectSegment(Segs[1]) /\ IsObjectSegment(Segs[2])
             /\ base64url_decode(Segs[3]).ok)
          => (Decoded.ok /\ last.err # "MalformedToken")

\* a header with alg and a payload that is an array
C12_Witness ==
    /\ Verified /\ Len(Segs) = 3 /\ last.err = "ClaimsNotObject"
    /\ Segs[1] = HeaderSeg /\ Segs[2] = SegmentOf(<<91, 93>>)

\* the endpoints that ask for a bearer token
AuthenticatedOps == {"send-message", "messages"}

\* the request x carries no token, or one that verify does not accept
Unauthenticated(x) ==
    Falsy(getUsernameFromToken(BearerOf(x.auth), x.at).username)

\* C13: a request to POST /send-message or GET /messages whose bearer token
\* is missing or fails verification, for whatever reason, is answered with
\* status 401 and the one body "Invalid or missing token"
C13_Uniform401 ==
    (http.op \in AuthenticatedOps /\ Unauthenticated(http))
    => (http.status = 401 /\ http.body = "Invalid or missing token")

\* C14: a login with the username and password of a signed-up user returns
\* a token, and getUsernameFromToken gives that username for the token
C14_IssueAuthenticate ==
    (/\ http.op = "login" /\ http.bodyOk
     /\ users[http.user].value
     /\ verifyPassword(http.password, users[http.user]))
    => /\ http.status = 200
       /\ getUsernameFromToken([present |-> TRUE, s |-> http.token],
                               http.at).username = JStr(http.user)

\* the times from the last operation to the end of the run
LaterTimes == {t \in {k * 500 : k \in 0..MaxTicks} : t >= last.at}

AlgName(alg) == IF typeof(alg) = "string" THEN alg.s ELSE ""

\* the family, the digest size, the curve and the salt length an identifier
\* of the closed set stands for: HS is HMAC, PS is RSA-PSS, RS is
\* RSASSA-PKCS1-v1_5, ES is ECDSA; the digits name the SHA-2 digest
FamilyOf(a) ==
    CASE a \in {"HS256", "HS384", "HS512"} -> "HMAC"
      [] a \in {"PS256", "PS384", "PS512"} -> "RSA-PSS"
      [] a \in {"RS256", "RS384", "RS512"} -> "RSASSA-PKCS1-v1_5"
      [] a \in {"ES256", "ES384"} -> "ECDSA"
BitsOf(a) ==
    CASE a \in {"HS256", "PS256", "RS256", "ES256"} -> 256
      [] a \in {"HS384", "PS384", "RS384", "ES384"} -> 384
      [] a \in {"HS512", "PS512", "RS512"} -> 512
HashOf(a) ==
    CASE BitsOf(a) = 256 -> "SHA-256"
      [] BitsOf(a) = 384 -> "SHA-384"
      [] BitsOf(a) = 512 -> "SHA-512"
CurveOf(a) ==
    IF FamilyOf(a) # "ECDSA" THEN ""
    ELSE IF BitsOf(a) = 256 THEN "P-256" ELSE "P-384"
SaltOf(a) == IF FamilyOf(a) = "RSA-PSS" THEN BitsOf(a) \div 8 ELSE 0
RegistryEntry(a) ==
    [ok |-> TRUE, name |-> FamilyOf(a), hash |-> HashOf(a),
     namedCurve |-> CurveOf(a), saltLength |-> SaltOf(a)]

\* key is a CryptoKey of the family registered for alg, with the registered
\* hash if the family is hashed and the registered curve if it is ECDSA
Match(alg, key) ==
    \A a \in {AlgName(alg)} :
        /\ a \in Registered
        /\ key.kind = "CryptoKey"
        /\ key.name = FamilyOf(a)
        /\ FamilyOf(a) # "ECDSA" => key.hash = HashOf(a)
        /\ FamilyOf(a) = "ECDSA" => key.namedCurve = CurveOf(a)

\* key may sign for alg: no key for "none", a matching key otherwise
Fits(alg, key) ==
    IF alg = JStr("none") THEN key = NullKey ELSE Match(alg, key)

\* the token create is to return for args
ExpectedToken ==
    \A input \in {SegmentOf(JSON_stringify(args.header)) \o <<46>>
                    \o SegmentOf(JSON_stringify(args.payload))} :
        jwt = input \o <<46>>
              \o (IF args.key = NullKey THEN <<>>
                  ELSE base64url_encode(
                           crypto_subtle_sign(
                               RegistryEntry(AlgName(args.header["alg"])),
                               args.key, encoder_encode(input))))

\* C17 as stated: create returns a token of the format signing input, dot,
\* base64url of the signature, and with a key that does not fit header.alg
\* (a missing header.alg included) it fails with the error of a key that
\* does not match the algorithm
C17_Original ==
    last.op = "create"
    => /\ last.ok => ExpectedToken
       /\ ~Fits(args.header["alg"], args.key)
          => (~last.ok /\ jwt = <<>> /\ last.err \in AlgMismatchErrs)

\* C17: create returns a token only for a key that fits header.alg, and the
\* token is the signing input, a dot and base64url of the signature; with a
\* key that does not fit it returns no token, and the error is that of a key
\* mismatch only if alg is "none", no key is given, or alg is registered and
\* the key is a CryptoKey: an alg that is missing or not registered gives
\* the error of an unsupported algorithm, and a key without an algorithm
\* gives a TypeError
C17_CreateErrors ==
    last.op = "create"
    => /\ last.ok => (Fits(args.header["alg"], args.key) /\ ExpectedToken)
       /\ ~Fits(args.header["alg"], args.key)
          => /\ ~last.ok /\ jwt = <<>>
             /\ last.err =
                  CASE args.header["alg"] = JStr("none") -> "AlgAllowsNoKey"
                    [] args.key = NullKey -> "AlgDemandsKey"
                    [] AlgName(args.header["alg"]) \notin Registered
                         -> "UnsupportedAlgorithm"
                    [] args.key.kind = "raw" -> "TypeError"
                    [] OTHER -> "AlgorithmMismatch"

\* a header without alg and an HMAC key
C17_Witness ==
    /\ last.op = "create" /\ ~last.ok /\ last.err = "UnsupportedAlgorithm"
    /\ args.header["alg"] = Undefined /\ args.key = HmacKey("SHA-256", 1)

\* C18 as stated: for an alg other than "none" the check returns true if the
\* key matches the algorithm and returns false in every other case
C18_Original ==
    (ret.op = "verifyAlgorithm" /\ args.header["alg"] # JStr("none"))
    => (ret.ok /\ (ret.val <=> Match(args.header["alg"], args.key)))

\* C18: for an alg other than "none" the check returns true if and only if
\* the key is of the registered family with the registered hash or curve;
\* with a CryptoKey that does not match a registered alg it returns false,
\* and without a key, with an alg that is not registered or with a key
\* that carries no algorithm it throws
C18_CompatibleIff ==
    (ret.op = "verifyAlgorithm" /\ args.header["alg"] # JStr("none"))
    => /\ (ret.ok /\ ret.val) <=> Match(args.header["alg"], args.key)
       /\ ~Match(args.header["alg"], args.key)
          => (ret.ok <=> (/\ args.key.kind = "CryptoKey"
                          /\ AlgName(args.header["alg"]) \in Registered))

\* ES256 with a key on the curve P-384
C18_Witness ==
    /\ ret.op = "verifyAlgorithm" /\ ret.ok /\ ~ret.val
    /\ args.header["alg"] = JStr("ES256") /\ args.key = EcKey("P-384", 3)

\* C19: "none" passes the check without a key only; "none" with a key fails,
\* and any other alg without a key fails
C19_NoneOnlyWithoutKey ==
    ret.op = "verifyAlgorithm"
    => /\ (args.header["alg"] = JStr("none") /\ args.key # NullKey)
          => (~ret.ok /\ ret.err = "AlgAllowsNoKey")
       /\ (args.header["alg"] # JStr("none") /\ args.key = NullKey)
          => (~ret.ok /\ ret.err = "AlgDemandsKey")
       /\ (args.header["alg"] = JStr("none") /\ args.key = NullKey)
          => (ret.ok /\ ret.val)

\* "none" with an HMAC key
C19_Witness ==
    /\ ret.op = "verifyAlgorithm" /\ ret.err = "AlgAllowsNoKey"
    /\ args.header["alg"] = JStr("none") /\ args.key = HmacKey("SHA-256", 1)

\* C20: getAlgorithm returns for each of the eleven identifiers the one
\* family, hash, curve and salt length it stands for, and fails with the
\* error of an unsupported algorithm for every other value, ES512 included
C20_ClosedRegistry ==
    ret.op = "getAlgorithm"
    => \A a \in {AlgName(args.header["alg"])} :
           IF a \in Registered
           THEN ret.ok /\ ret.spec = RegistryEntry(a)
           ELSE ~ret.ok /\ ret.err = "UnsupportedAlgorithm" /\ ~ret.spec.ok

C20_Witness ==
    /\ ret.op = "getAlgorithm" /\ ret.err = "UnsupportedAlgorithm"
    /\ args.header["alg"] = JStr("ES512")

\* a step of the handler op: it leaves a new exchange, or the same one
\* again, and does not move the clock
Handled(op) == http'.op = op /\ nowMs' = nowMs

C22_Login ==
    (http.op = "login" /\ http.bodyOk)
    => IF users[http.user].value
          /\ verifyPassword(http.password, users[http.user])
       THEN /\ http.status = 200 /\ http.body = "Login successful"
            /\ http.token # <<>>
       ELSE /\ http.status = 401
            /\ http.body = "Invalid username or password"

\* the claims of the bearer token of request x when it is a token signed
\* for HS256 over the secret whose exp and nbf hold at the time of the request
BearerClaims(x) ==
    Let(BearerOf(x.auth), LAMBDA b :
        IF ~b.present \/ b.s = <<>>
        THEN [ok |-> FALSE, payload |-> EmptyObject]
        ELSE Let(verify(b.s, SecretKey, x.at), LAMBDA r :
                 [ok |-> r.ok, payload |-> r.payload]))

\* C23: a send-message with a valid bearer token answers 200 "Message sent
\* successfully" and stores a message from the username of the token; with
\* a missing or invalid token it answers 401 "Invalid or missing token"
C23_SendMessage ==
    (http.op = "send-message" /\ http.bodyOk)
    => \A b \in {BearerClaims(http)} :
           IF b.ok
           THEN /\ http.status = 200 /\ http.body = "Message sent successfully"
                /\ \E m \in messages :
                       m.from = b.payload["iss"].s /\ m.timestamp = http.at
           ELSE http.status = 401 /\ http.body = "Invalid or missing token"

\* C24: a listing with a valid bearer token answers 200 with stored
\* messages only; with a missing or invalid token it answers 401 without
\* any message
C24_GetMessages ==
    http.op = "messages"
    => \A b \in {BearerClaims(http)} :
           IF b.ok
           THEN http.status = 200 /\ http.data \subseteq messages
           ELSE /\ http.status = 401 /\ http.body = "Invalid or missing token"
                /\ http.data = {}

\* C25: a delete with type accounts removes every user and leaves the
\* messages, with type msgs removes every message and leaves the users, and
\* with another type answers 400 "Invalid type parameter" and leaves both
C25_Delete ==
    [][Handled("delete")
       => \/ /\ http'.status = 200
             /\ http'.body = "All accounts deleted successfully"
             /\ \A u \in Usernames : ~users'[u].value
             /\ messages' = messages
          \/ /\ http'.status = 200
             /\ http'.body = "All messages deleted successfully"
             /\ messages' = {}
             /\ users' = users
          \/ /\ http'.status = 400 /\ http'.body = "Invalid type parameter"
             /\ users' = users /\ messages' = messages]_vars

\* the accounts were deleted while messages are stored
C25_Witness ==
    /\ http.op = "delete" /\ http.body = "All accounts deleted successfully"
    /\ messages = StoredMessages
    /\ \A u \in Usernames : ~users[u].value

\* C26: when generateToken throws in a login with good credentials, the
\* response is 500 without a token, not 200 and not 401
C26_CreationFailure ==
    (/\ http.op = "login" /\ http.bodyOk
     /\ users[http.user].value
     /\ verifyPassword(http.password, users[http.user])
     /\ ~generateToken(http.user, http.at).ok)
    => /\ http.status = 500 /\ http.body = "Internal Server Error"
       /\ http.token = <<>>
       /\ http.cause = generateToken(http.user, http.at).err

C26_Witness ==
    /\ http.op = "login" /\ http.status = 500 /\ http.cause = "TypeError"
    /\ users[http.user].value
    /\ verifyPassword(http.password, users[http.user])

\* C27: base64 round trip: for every byte sequence b, the empty one and
\* lengths of every residue modulo 3 included, decode(encode(b)) = b, and
\* encode of the empty sequence is the empty string
C27_Base64RoundTrip ==
    /\ ret.op = "decode" => ret.ok /\ ret.val = operand.bytes
    /\ (ret.op = "encode" /\ operand.bytes = <<>>) => ret.val = <<>>

\* a sequence of 2 modulo 3 octets whose text has "+", "/" and "=" came back
C27_Witness ==
    /\ ret.op = "decode" /\ ret.ok
    /\ Len(operand.bytes) % 3 = 2
    /\ ret.val = operand.bytes
    /\ {43, 47, 61} \subseteq Range(base64_encode(operand.bytes))

\* the distance of n seconds from ms milliseconds, in milliseconds
Off(n, ms) == IF 1000 * n >= ms THEN 1000 * n - ms ELSE ms - 1000 * n

\* C28: getNumericDate returns a whole number of seconds: for a Date the
\* nearest second to its milliseconds, for an offset of s seconds the
\* nearest second to now + 1000 * s milliseconds; the exp of generateToken
\* lies within half a second of now + 3600 s
C28_NumericDate ==
    /\ ret.op = "getNumericDate" =>
          /\ ret.val \in Int
          /\ Off(ret.val, IF operand.date THEN operand.v
                          ELSE nowMs + 1000 * operand.v) <= 500
    /\ ret.op = "generateToken" =>
          /\ ret.val \in Int
          /\ Off(ret.val, nowMs + 3600 * 1000) <= 500

\* an offset was rounded up at the half second, a Date before the epoch was
\* rounded, or a token's exp was rounded up from now + 3600 s
C28_Witness ==
    \/ /\ ret.op = "getNumericDate" /\ ~operand.date /\ nowMs % 1000 = 500
       /\ 1000 * ret.val = nowMs + 1000 * operand.v + 500
    \/ /\ ret.op = "generateToken" /\ nowMs % 1000 > 500
       /\ 1000 * ret.val > nowMs + 3600 * 1000

\* the methods of a Server that a caller calls
Methods == {"close", "serve", "listenAndServe", "listenAndServeTls"}

\* C29: a closed Server stays closed: close() on a closed Server throws
\* "Server closed", and so do serve(), listenAndServe() and
\* listenAndServeTls() after close(), which track and open no listener
C29_ClosedStaysClosed ==
    [][server.closed =>
        /\ server'.closed
        /\ ret'.op \in Methods =>
             /\ ~ret'.ok /\ ret'.err = "Server closed"
             /\ server'.listeners = server.listeners
             /\ server'.open = server.open
             /\ server'.made = server.made
             /\ server'.calls = server.calls]_vars

\* after close(), listenAndServe threw "Server closed" with an open listener
\* of the caller at hand, and nothing is tracked
C29_Witness ==
    /\ server.closed
    /\ ret.op = "listenAndServe" /\ ~ret.ok /\ ret.err = "Server closed"
    /\ server.listeners = {}
    /\ server.open # {}

\* a call of serve that has returned or thrown
Ended(call) == call.pc \in {"returned", "threw"}

\* C30: serve(listener) always closes its listener: when a call that
\* tracked the listener returns or throws, the listener is untracked and
\* closed, however the accept loop ended
C30_ServeClosesListener ==
    [][\A i \in 1..Len(server.calls) :
          (~Ended(server.calls[i]) /\ Ended(server'.calls[i])) =>
              /\ server.calls[i].listener \notin server'.listeners
              /\ server.calls[i].listener \notin server'.open]_vars

\* one call threw for an accept error on an open Server, another returned
\* after close(); both listeners are closed
C30_Witness ==
    \E i, j \in 1..Len(server.calls) :
        /\ server.calls[i].pc = "threw" /\ server.calls[i].err = "Interrupted"
        /\ server.calls[j].pc = "returned"
        /\ server.calls[i].listener # server.calls[j].listener
        /\ server.open = {}
        /\ server.listeners = {}

\* C31: after close() no listener and no HTTP connection of the Server is
\* tracked or open, in every interleaving: also when an accept completed
\* just before close() and when a request is being served
C31_CloseClosesAll ==
    server.closed =>
        /\ server.listeners = {}
        /\ server.conns = {}
        /\ server.openConns = {}
        /\ \A i \in 1..Len(server.calls) : server.calls[i].listener \notin server.open

\* close() came between an accept and the upgrade of its connection, or
\* while a request was with the handler; the connection was made an HTTP
\* connection and is closed
C31_Witness ==
    /\ server.closed
    /\ ret.op = "serveHttp" /\ ret.ok
    /\ server.accepted = 1 /\ server.openConns = {}

\* the delays of the claim: 5 ms doubled up to 640 ms, and 1000 ms
Delays == {5, 10, 20, 40, 80, 160, 320, 640, 1000}

\* C32: accept backoff: the delay after a transient accept failure is 5 ms,
\* doubles with each further consecutive failure, never exceeds 1000 ms and
\* is reset by every successful accept; the delay awaited is one of Delays
C32_AcceptBackoff ==
    [][\A i \in 1..Len(server.calls) :
          \A a \in {server.calls[i]} : \A b \in {server'.calls[i]} :
             /\ (a.pc = "accept" /\ b.pc = "delay") =>
                   /\ b.backoff \in Delays
                   /\ b.backoff = IF a.backoff = 0 THEN 5
                                  ELSE IF 2 * a.backoff > 1000 THEN 1000
                                  ELSE 2 * a.backoff
             /\ (a.pc = "conn" /\ b.pc # "conn") => b.backoff = 0
             /\ (a.pc # "conn" /\ ~(a.pc = "accept" /\ b.pc = "delay")) =>
                   b.backoff = a.backoff]_vars

\* after a connection was accepted, failures followed one another until
\* the delay of 1000 ms was awaited
C32_Witness ==
    \E i \in 1..Len(server.calls) :
        /\ server.calls[i].pc = "delay"
        /\ server.calls[i].backoff = 1000
        /\ server.accepted = 1

\* C33: after close() the accept loop of every running call of serve ends:
\* no call starts another listener.accept() once the Server is closed, and
\* every call returns or throws in the end
C33_AcceptLoopEnds ==
    /\ [][server.closed =>
            \A i \in 1..Len(server.calls) :
                server'.calls[i].pc = "accept" => server.calls[i].pc = "accept"]_vars
    /\ server.closed ~> \A i \in 1..Len(server.calls) : Ended(server.calls[i])

\* a call whose accept failed on the listener that close() closed, and
\* which backed off, has returned
C33_Witness ==
    /\ server.closed /\ server.aborted
    /\ ret.op = "finally" /\ ret.ok
    /\ \E i \in 1..Len(server.calls) :
          server.calls[i].pc = "returned" /\ server.calls[i].backoff = 5

\* C34: for every request exactly one response is handed to respondWith:
\* the handler's, or the onError response (500 "Internal Server Error")
\* when the handler threw or returned a response with a used body; a
\* failure of the sending ends #respond without an error and leaves the
\* connection and the other requests as they are
C34_OneResponse ==
    /\ [](\A r \in 1..Len(server.reqs) : \A q \in {server.reqs[r]} :
            /\ q.pc \in {"handler", "onError"} => q.sent = 0
            /\ q.pc \in {"respondWith", "done"} =>
                  /\ q.sent = 1
                  /\ IF q.handler = "response" THEN q.by = "handler"
                     ELSE /\ q.handler \in {"throws", "consumed"}
                          /\ q.by = "onError" /\ q.status = 500
                          /\ q.body = "Internal Server Error")
    /\ [][ret'.op = "respondWith" =>
            /\ server'.conns = server.conns
            /\ server'.openConns = server.openConns
            /\ server'.calls = server.calls
            /\ \E r \in 1..Len(server.reqs) :
                  /\ server.reqs[r].pc = "respondWith"
                  /\ server'.reqs[r].pc = "done"
                  /\ server'.reqs[r].sent = 1
                  /\ \A o \in 1..Len(server.reqs) \ {r} :
                        server'.reqs[o] = server.reqs[o]]_vars

\* the handler of a request threw and the sending of the 500 response
\* failed; the connection is still served, and a later request on it was
\* answered by its handler
C34_Witness ==
    /\ Len(server.reqs) = 2
    /\ server.reqs[1].pc = "done" /\ server.reqs[1].handler = "throws"
    /\ server.reqs[1].by = "onError" /\ ~server.reqs[1].delivered
    /\ server.reqs[2].conn = server.reqs[1].conn
    /\ server.reqs[2].pc = "done" /\ server.reqs[2].delivered
    /\ server.reqs[2].by = "handler"
    /\ server.reqs[1].conn \in server.conns

\* C35: the iterated Server serves the requests of a connection one after
\* the other: while a request is read or yielded, every earlier request has
\* had its done resolved by respond without an error and its body consumed;
\* respond resolves done once, after a successful and after a failed write;
\* after a failed write no further request is yielded and the connection
\* is untracked when the iterator has seen the error
C35_Serialized ==
    /\ [](\A q \in 1..Len(server.reqs) : \A x \in {server.reqs[q]} :
            /\ (q < Len(server.reqs) \/ server.pc = "read") =>
                  x.done = "ok" /\ x.w = "written" /\ x.finalized
            /\ x.resolves = IF x.w \in {"written", "failed"} THEN 1 ELSE 0
            /\ x.w = "written" => x.done = "ok"
            /\ x.w = "failed" =>
                  /\ x.done = "err"
                  /\ q = Len(server.reqs)
                  /\ server.open = {}
                  /\ server.pc \in {"yielded", "awaitDone", "returned"}
                  /\ server.pc = "returned" => server.connections = {})
    /\ [][Len(server'.reqs) > Len(server.reqs) => server.pc = "read"]_vars

\* the second request of a connection was yielded after the first was
\* answered and finalized; its write failed and the iterator returned
C35_Witness ==
    /\ Len(server.reqs) = 2
    /\ server.reqs[1].finalized /\ server.reqs[1].done = "ok"
    /\ server.reqs[2].done = "err"
    /\ server.pc = "returned" /\ server.connections = {}

\* the five routes of the claim: method, pathname, and the operation that
\* the handler of the route records
Routes ==
    {<<"POST", "/signup", "signup">>, <<"POST", "/login", "login">>,
     <<"POST", "/send-message", "send-message">>, <<"GET", "/messages", "messages">>,
     <<"DELETE", "/delete", "delete">>}

\* C36: a request whose method and path are none of the five routes is
\* answered 404 "Not Found" and leaves users and messages as they are; each
\* of the five routes is answered by its own handler
C36_Routing ==
    [][(operand' = operand /\ http' # http) =>
          IF \E r \in Routes : r[1] = operand.method /\ r[2] = operand.pathname
          THEN \E r \in Routes :
                  /\ r[1] = operand.method /\ r[2] = operand.pathname
                  /\ http'.op = r[3]
          ELSE /\ http'.op = "not-found"
               /\ http'.status = 404 /\ http'.body = "Not Found"
               /\ users' = users /\ messages' = messages]_vars

\* GET /signup was answered 404 on a store that holds users and messages
C36_Witness ==
    /\ operand = [method |-> "GET", pathname |-> "/signup"]
    /\ http.op = "not-found" /\ http.status = 404
    /\ users # NoUsers /\ messages # {}

\* the signups for username u that were answered
Answered(u) ==
    {i \in 1..Len(pending) : pending[i].username = u /\ pending[i].pc = "done"}

\* C37: among interleaved signups for one username at most one is answered
\* 201, every other one is answered 409, and the stored password hash is
\* the one of the request answered 201
C37_UniqueUsername ==
    \A u \in Usernames :
        /\ Cardinality({i \in Answered(u) : pending[i].status = 201}) <= 1
        /\ \A i \in Answered(u) :
              /\ pending[i].status \in {201, 409}
              /\ pending[i].status = 201 => users[u] = pending[i].hashed

====
